---- MODULE Spec2Model ----
(***************************************************************************)
(* Configuration resolution of vllm/engine/arg_utils.py:                   *)
(* EngineArgs.create_engine_config and the helpers it calls                *)
(* (_is_v1_supported_oracle, _set_default_args_v0/_v1, create_load_config, *)
(* _raise_or_warning, _experimental_warning, _fallback_info).              *)
(*                                                                         *)
(* One resolution is one run of create_engine_config on one EngineArgs     *)
(* object `self`.  The program counter pc walks through the statements of  *)
(* create_engine_config in source order; a raised exception moves pc to    *)
(* "failed" and records the exception in `error`.                          *)
(***************************************************************************)
EXTENDS Integers, Sequences, FiniteSets, TLC

(***************************************************************************)
(* Python values.  Optional[T] is modelled as a sequence of length <= 1:   *)
(* None is <<>>, a value v is <<v>>.                                       *)
(***************************************************************************)
None == <<>>

Some(v) == <<v>>

Get(o) == o[1]

\* bool(x) for an Optional[str]: None and "" are falsy.
TruthyStr(o) == o # None /\ Get(o) # ""

\* bool(x) for an Optional[bool]: None and False are falsy.
TruthyBool(o) == o # None /\ Get(o)

\* bool(x) for an Optional[int]: None and 0 are falsy.
TruthyInt(o) == o # None /\ Get(o) # 0

Max(a, b) == IF a >= b THEN a ELSE b

(***************************************************************************)
(* Bounds of the explored inputs.                                          *)
(***************************************************************************)
\* largest --num-scheduler-steps explored
MaxSteps == 4

\* most calls of create_engine_config on one EngineArgs object
MaxCalls == 2

\* largest explicit --num-lookahead-slots explored
MaxLookahead == 2

\* largest lookahead a SpeculativeConfig mandates
MaxSpecLookahead == 3

\* number of option/environment fields that differ from their default
MaxDeviations == 2

(***************************************************************************)
(* A str is a sequence of atoms when the code takes it apart (split(","))  *)
(* and a TLA+ string otherwise.  collect_detailed_traces is a sequence of  *)
(* atoms, each a module name or the separator ",".                         *)
(***************************************************************************)
RECURSIVE Split(_)
Split(s) ==
    IF s = <<>> THEN <<"">>
    ELSE IF Head(s) = "," THEN <<"">> \o Split(Tail(s))
    ELSE LET rest == Split(Tail(s))
         IN  <<Head(s) \o Head(rest)>> \o Tail(rest)

ALLOWED_DETAILED_TRACE_MODULES == <<"model", "worker", "all">>

InSeq(x, s) == \E i \in 1..Len(s) : s[i] = x

(***************************************************************************)
(* EngineArgs: the dataclass defaults of the fields create_engine_config   *)
(* reads or writes (fields that are only copied into a sub-configuration   *)
(* and never tested are left out).                                         *)
(***************************************************************************)
EngineArgs ==
    [ model                        |-> "facebook/opt-125m",
      load_format                  |-> "auto",
      kv_cache_dtype               |-> "auto",
      pipeline_parallel_size       |-> 1,
      enable_prefix_caching        |-> None,
      max_num_batched_tokens       |-> None,
      max_num_partial_prefills     |-> Some(1),
      max_long_partial_prefills    |-> Some(1),
      long_prefill_token_threshold |-> Some(0),
      max_num_seqs                 |-> None,
      quantization                 |-> None,
      enable_lora                  |-> FALSE,
      max_loras                    |-> 1,
      enable_prompt_adapter        |-> FALSE,
      max_cpu_loras                |-> None,
      num_scheduler_steps          |-> 1,
      num_lookahead_slots          |-> 0,
      model_loader_extra_config    |-> None,
      preemption_mode              |-> None,
      scheduler_delay_factor       |-> 0,
      enable_chunked_prefill       |-> None,
      guided_decoding_backend      |-> "xgrammar",
      logits_processor_pattern     |-> None,
      speculative_model            |-> None,
      num_speculative_tokens       |-> None,
      qlora_adapter_name_or_path   |-> None,
      otlp_traces_endpoint         |-> None,
      collect_detailed_traces      |-> None,
      disable_async_output_proc    |-> FALSE,
      scheduling_policy            |-> "fcfs",
      scheduler_cls                |-> "vllm.core.scheduler.Scheduler",
      worker_cls                   |-> "auto",
      kv_transfer_config           |-> None,
      additional_config            |-> None ]

(***************************************************************************)
(* What the collaborators report during one resolution: the environment    *)
(* (vllm.envs), the platform probe (vllm.platforms.current_platform), the  *)
(* facts ModelConfig derives from the model (hf), the caller's usage       *)
(* context and the lookahead a draft model would mandate.                  *)
(***************************************************************************)
DefaultWorld ==
    [ self     |-> EngineArgs,
      \* VLLM_USE_V1 in the process environment: "unset", "0" or "1"
      use_v1_env    |-> "unset",
      use_v1_by_default |-> TRUE,
      \* not isinstance(self, AsyncEngineArgs) and envs.VLLM_CI_USE_S3
      \* and self.model in MODELS_ON_S3
      ci_model_on_s3 |-> FALSE,
      \* check_gguf_file(self.model)
      is_gguf_file  |-> FALSE,
      \* current_platform
      device_type   |-> "cuda",
      capability_major |-> 8,
      device_name   |-> <<"NVIDIA", "A100">>,
      \* facts of the model
      task          |-> "generate",
      is_v1_compatible |-> TRUE,
      use_mla       |-> FALSE,
      is_multimodal_model |-> FALSE,
      sliding_window |-> None,
      max_model_len |-> 4096,
      architectures |-> "OPTForCausalLM",
      \* caller
      usage_context |-> Some("LLM_CLASS"),
      \* draft model
      spec_lookahead |-> 1 ]

\* A deviation: one field of the world set to a non-default value.
D(path, values) == {<<path, v>> : v \in values}

Deviations ==
         D(<<"self", "load_format">>, {"bitsandbytes"})
    \cup D(<<"self", "kv_cache_dtype">>, {"fp8"})
    \cup D(<<"self", "pipeline_parallel_size">>, {2})
    \cup D(<<"self", "enable_prefix_caching">>, {Some(TRUE)})
    \cup D(<<"self", "max_num_batched_tokens">>, {Some(512)})
    \cup D(<<"self", "max_num_partial_prefills">>, {Some(2)})
    \cup D(<<"self", "max_long_partial_prefills">>, {Some(2)})
    \cup D(<<"self", "long_prefill_token_threshold">>, {Some(64)})
    \cup D(<<"self", "max_num_seqs">>, {Some(8)})
    \cup D(<<"self", "quantization">>, {Some("bitsandbytes"), Some("awq")})
    \cup D(<<"self", "enable_lora">>, {TRUE})
    \cup D(<<"self", "max_loras">>, {4})
    \cup D(<<"self", "enable_prompt_adapter">>, {TRUE})
    \cup D(<<"self", "max_cpu_loras">>, {Some(-1), Some(0), Some(8)})
    \cup D(<<"self", "num_scheduler_steps">>, {0} \cup 2..MaxSteps)
    \cup D(<<"self", "num_lookahead_slots">>, {-1} \cup 1..MaxLookahead)
    \cup D(<<"self", "preemption_mode">>, {Some("swap")})
    \cup D(<<"self", "scheduler_delay_factor">>, {1})
    \cup D(<<"self", "enable_chunked_prefill">>, {Some(TRUE), Some(FALSE)})
    \cup D(<<"self", "guided_decoding_backend">>, {"outlines"})
    \cup D(<<"self", "logits_processor_pattern">>, {Some("my.*")})
    \cup D(<<"self", "speculative_model">>, {Some("[ngram]"), Some("draft-model")})
    \cup D(<<"self", "num_speculative_tokens">>, {Some(3)})
    \cup D(<<"self", "qlora_adapter_name_or_path">>, {Some(""), Some("adapter")})
    \cup D(<<"self", "otlp_traces_endpoint">>, {Some("http://otlp")})
    \cup D(<<"self", "collect_detailed_traces">>, {Some(<<>>), Some(<<"all">>), Some(<<"model", ",", "bogus">>),
         Some(<<"nope", ",", "worker", ",", "bogus">>)})
    \cup D(<<"self", "disable_async_output_proc">>, {TRUE})
    \cup D(<<"self", "scheduling_policy">>, {"priority"})
    \cup D(<<"self", "scheduler_cls">>, {"my.Scheduler"})
    \cup D(<<"self", "worker_cls">>, {"my.Worker"})
    \cup D(<<"self", "kv_transfer_config">>, {Some("kv-producer")})
    \cup D(<<"self", "additional_config">>, {Some("cfg")})
    \cup D(<<"use_v1_by_default">>, {FALSE})
    \cup D(<<"ci_model_on_s3">>, {TRUE})
    \cup D(<<"is_gguf_file">>, {TRUE})
    \cup D(<<"device_type">>, {"cpu", "tpu"})
    \cup D(<<"capability_major">>, {7})
    \cup D(<<"device_name">>, {<<"NVIDIA", "H100", "PCIe">>})
    \cup D(<<"task">>, {"embed"})
    \cup D(<<"is_v1_compatible">>, {FALSE})
    \cup D(<<"use_mla">>, {TRUE})
    \cup D(<<"is_multimodal_model">>, {TRUE})
    \cup D(<<"sliding_window">>, {Some(1024)})
    \cup D(<<"max_model_len">>, {32768, 32769})
    \cup D(<<"usage_context">>, {Some("OPENAI_API_SERVER"), None})
    \cup D(<<"spec_lookahead">>, 2..MaxSpecLookahead)

NoDeviation == <<<<>>, 0>>

Deviate(w, d) ==
    IF d[1] = <<>> THEN w
    ELSE IF Len(d[1]) = 2
    THEN [w EXCEPT !.self[d[1][2]] = d[2]]
    ELSE [w EXCEPT ![d[1][1]] = d[2]]

RECURSIVE DeviateAll(_, _, _)
DeviateAll(w, ds, k) ==
    IF k = 0 THEN w ELSE Deviate(DeviateAll(w, ds, k - 1), ds[k])

\* The worlds explored: at most MaxDeviations fields away from the defaults,
\* each under every value of the VLLM_USE_V1 override ...
IsNearDefaultWorld(w) ==
    \E ds \in [1..MaxDeviations -> Deviations \cup {NoDeviation}],
       o \in {"unset", "0", "1"} :
        w = [DeviateAll(DefaultWorld, ds, MaxDeviations) EXCEPT !.use_v1_env = o]

\* ... and every combination of the features the second half of
\* _is_v1_supported_oracle tests.
IsExperimentalWorld(w) ==
    \E o \in {"unset", "0", "1"},
       mla \in BOOLEAN,
       lora \in BOOLEAN,
       pp \in {1, 2},
       sm \in {None, Some("[ngram]")},
       dev \in {"cuda", "cpu", "tpu"} :
        w = [DefaultWorld EXCEPT
                !.use_v1_env = o,
                !.use_mla = mla,
                !.self.enable_lora = lora,
                !.self.pipeline_parallel_size = pp,
                !.self.speculative_model = sm,
                !.device_type = dev]

\* ... and several of the features the first half of the oracle rejects,
\* together and with the features of its second half.
IsUnsupportedWorld(w) ==
    \E o \in {"unset", "0", "1"},
       pm \in {None, Some("swap")},
       async \in BOOLEAN,
       wc \in {"auto", "my.Worker"},
       kv \in {"auto", "fp8"},
       kvt \in {None, Some("kv-producer")},
       pp \in {1, 2},
       mla \in BOOLEAN :
        w = [DefaultWorld EXCEPT
                !.use_v1_env = o,
                !.self.preemption_mode = pm,
                !.self.disable_async_output_proc = async,
                !.self.worker_cls = wc,
                !.self.kv_cache_dtype = kv,
                !.self.kv_transfer_config = kvt,
                !.self.pipeline_parallel_size = pp,
                !.use_mla = mla]

\* ... and every combination of the inputs the fatal checks of
\* create_engine_config read, so that several checks can be violated at once.
IsConflictWorld(w) ==
    \E o \in {"unset", "0", "1"}, pp \in {1, 2},
       steps \in {1, MaxSteps},
       sm \in {None, Some("draft-model")},
       ecp \in {None, Some(TRUE), Some(FALSE)},
       t \in {"generate", "embed"},
       q \in {None, Some("bitsandbytes")},
       tr \in {None, Some(<<"model", ",", "bogus">>)},
       dev \in {"cuda", "cpu"},
       len \in {4096, 32769} :
        w = [DefaultWorld EXCEPT
                !.use_v1_env = o,
                !.self.pipeline_parallel_size = pp,
                !.self.num_scheduler_steps = steps,
                !.self.speculative_model = sm,
                !.self.enable_chunked_prefill = ecp,
                !.task = t,
                !.self.quantization = q,
                !.self.collect_detailed_traces = tr,
                !.device_type = dev,
                !.max_model_len = len]

\* ... and every combination of the LoRA options with LoRA enabled.
IsLoRAWorld(w) ==
    \E o \in {"unset", "0", "1"},
       max_loras \in {1, 4},
       max_cpu_loras \in {None, Some(-1), Some(0), Some(8)} :
        w = [DefaultWorld EXCEPT
                !.use_v1_env = o,
                !.self.enable_lora = TRUE,
                !.self.max_loras = max_loras,
                !.self.max_cpu_loras = max_cpu_loras]

\* ... and every combination of the inputs the defaulting of
\* _set_default_args_v0 and _set_default_args_v1 reads.
IsDefaultingWorld(w) ==
    \E o \in {"unset", "0", "1"},
       epc \in {None, Some(TRUE), Some(FALSE)},
       mm \in BOOLEAN,
       name \in {DefaultWorld.device_name, <<"NVIDIA", "H100", "PCIe">>, <<"NVIDIA", "H200">>},
       usage \in {Some("LLM_CLASS"), Some("OPENAI_API_SERVER"), None},
       otlp \in {None, Some(""), Some("http://otlp")},
       seqs \in {None, Some(8)},
       tokens \in {None, Some(512)} :
        w = [DefaultWorld EXCEPT
                !.use_v1_env = o,
                !.self.enable_prefix_caching = epc,
                !.is_multimodal_model = mm,
                !.device_name = name,
                !.usage_context = usage,
                !.self.otlp_traces_endpoint = otlp,
                !.self.max_num_seqs = seqs,
                !.self.max_num_batched_tokens = tokens]

IsWorld(w) ==
    \/ IsNearDefaultWorld(w)
    \/ IsExperimentalWorld(w)
    \/ IsUnsupportedWorld(w)
    \/ IsConflictWorld(w)
    \/ IsLoRAWorld(w)
    \/ IsDefaultingWorld(w)

(***************************************************************************)
(* State.                                                                  *)
(***************************************************************************)
VARIABLES
    self,       \* the EngineArgs object create_engine_config runs on
    ctx,        \* the world of this resolution (ctx.self: the caller's args)
    pc,         \* the statement of create_engine_config to run next
    use_v1,     \* local variable use_v1
    configs,    \* local variables holding the sub-configurations
    built,      \* names of the sub-configurations, in construction order
    notices,    \* records passed to logger.info / logger.warning, in order
    error,      \* the exception that ended the resolution, or None
    result,     \* the returned VllmConfig, or None
    calls,      \* how many times create_engine_config was called on self
    previous    \* what the call before this one returned or raised, or None

vars == <<self, ctx, pc, use_v1, configs, built, notices, error, result,
          calls, previous>>

(***************************************************************************)
(* vllm.envs and current_platform, as create_engine_config reads them.     *)
(***************************************************************************)
\* envs.VLLM_USE_V1: true exactly when the variable is set to 1
VLLM_USE_V1(c) == c.use_v1_env = "1"

\* envs.is_set("VLLM_USE_V1")
is_set_VLLM_USE_V1(c) == c.use_v1_env # "unset"

VLLM_USE_V1_BY_DEFAULT(c) == c.use_v1_by_default

is_cuda(c) == c.device_type = "cuda"

is_cpu(c) == c.device_type = "cpu"

\* ModelConfig.runner_type of a resolved task
RunnerType(task) ==
    IF task \in {"embed", "classify", "score", "reward"} THEN "pooling"
    ELSE task

Notice(level, msg, feature) == [level |-> level, msg |-> msg, feature |-> feature]

Exception(type, msg, about) == Some([type |-> type, msg |-> msg, about |-> about])

(***************************************************************************)
(* _raise_or_warning, _experimental_warning, _fallback_info                *)
(***************************************************************************)
\* Variant of _raise_or_warning that never raises.
raise_or_warning_AlwaysWarns(c, feature_name, recommend_to_remove) ==
    [error   |-> None,
     notices |-> <<Notice("warning",
                          "is not supported by the V1 Engine. Falling back to V0.",
                          feature_name)>>]

raise_or_warning(c, feature_name, recommend_to_remove) ==
    IF VLLM_USE_V1(c)
    THEN [error   |-> Exception("NotImplementedError",
                                "VLLM_USE_V1=1 is not supported with", feature_name),
          notices |-> <<>>]
    ELSE [error   |-> None,
          notices |-> <<Notice("warning",
                               IF recommend_to_remove
                               THEN "is not supported by the V1 Engine. Falling back to V0. We recommend to remove"
                               ELSE "is not supported by the V1 Engine. Falling back to V0.",
                               feature_name)>>]

experimental_warning(feature_name) ==
    Notice("warning", "Detected VLLM_USE_V1=1. Usage should be considered experimental.",
           feature_name)

fallback_info(feature_name) ==
    Notice("info", "is experimental on VLLM_USE_V1=1. Falling back to V0 Engine.",
           feature_name)

(***************************************************************************)
(* EngineArgs._is_v1_supported_oracle                                      *)
(*                                                                         *)
(* The first block of the function is a chain of `if <test>:               *)
(* _raise_or_warning(...); return False`.  TierA lists the tests in source *)
(* order; the first one that holds decides.                                *)
(***************************************************************************)
Rule(hit, feature, recommend_to_remove) ==
    [hit |-> hit, feature |-> feature, recommend_to_remove |-> recommend_to_remove]

\* Variant of the hard-unsupported rules without the rule for
\* --disable-async-output-proc.
TierA_WithoutAsyncOutputProc(s, m, c) ==
    << Rule(s.logits_processor_pattern # EngineArgs.logits_processor_pattern,
            "--logits-processor-pattern", FALSE),
       Rule(s.preemption_mode # EngineArgs.preemption_mode,
            "--preemption-mode", TRUE),
       Rule(s.scheduling_policy # EngineArgs.scheduling_policy,
            "--scheduling-policy", FALSE),
       Rule(s.scheduler_cls # EngineArgs.scheduler_cls,
            "--scheduler-cls", FALSE),
       Rule(s.worker_cls # EngineArgs.worker_cls,
            "--worker-cls", FALSE),
       Rule(s.num_scheduler_steps # EngineArgs.num_scheduler_steps,
            "--num-scheduler-steps", TRUE),
       Rule(s.scheduler_delay_factor # EngineArgs.scheduler_delay_factor,
            "--scheduler-delay-factor", TRUE),
       Rule(s.additional_config # EngineArgs.additional_config,
            "--additional-config", FALSE),
       Rule(s.guided_decoding_backend # "xgrammar",
            "--guided-decoding-backend", FALSE),
       Rule(is_cuda(c) /\ c.capability_major < 8,
            "Compute Capacity < 8.0", FALSE),
       Rule(s.kv_cache_dtype # "auto",
            "--kv-cache-dtype", FALSE),
       Rule(s.enable_prompt_adapter,
            "--enable-prompt-adapter", FALSE),
       Rule(m.task \notin {"generate"},
            "--task " \o m.task, FALSE),
       Rule(~m.is_v1_compatible,
            m.architectures, FALSE),
       Rule(\/ s.max_num_partial_prefills # EngineArgs.max_num_partial_prefills
            \/ s.max_long_partial_prefills # EngineArgs.max_long_partial_prefills
            \/ s.long_prefill_token_threshold # EngineArgs.long_prefill_token_threshold,
            "Concurrent Partial Prefill", FALSE),
       Rule(TruthyStr(s.otlp_traces_endpoint) \/ TruthyStr(s.collect_detailed_traces),
            "--otlp-traces-endpoint", FALSE),
       Rule(/\ (s.speculative_model # None \/ s.num_speculative_tokens # None)
            /\ s.speculative_model # Some("[ngram]"),
            "Speculative Decoding", FALSE),
       Rule(s.kv_transfer_config # EngineArgs.kv_transfer_config,
            "--kv-transfer-config", FALSE) >>

TierA(s, m, c) ==
    << Rule(s.logits_processor_pattern # EngineArgs.logits_processor_pattern,
            "--logits-processor-pattern", FALSE),
       Rule(s.preemption_mode # EngineArgs.preemption_mode,
            "--preemption-mode", TRUE),
       Rule(s.disable_async_output_proc # EngineArgs.disable_async_output_proc,
            "--disable-async-output-proc", TRUE),
       Rule(s.scheduling_policy # EngineArgs.scheduling_policy,
            "--scheduling-policy", FALSE),
       Rule(s.scheduler_cls # EngineArgs.scheduler_cls,
            "--scheduler-cls", FALSE),
       Rule(s.worker_cls # EngineArgs.worker_cls,
            "--worker-cls", FALSE),
       Rule(s.num_scheduler_steps # EngineArgs.num_scheduler_steps,
            "--num-scheduler-steps", TRUE),
       Rule(s.scheduler_delay_factor # EngineArgs.scheduler_delay_factor,
            "--scheduler-delay-factor", TRUE),
       Rule(s.additional_config # EngineArgs.additional_config,
            "--additional-config", FALSE),
       Rule(s.guided_decoding_backend # "xgrammar",
            "--guided-decoding-backend", FALSE),
       Rule(is_cuda(c) /\ c.capability_major < 8,
            "Compute Capacity < 8.0", FALSE),
       Rule(s.kv_cache_dtype # "auto",
            "--kv-cache-dtype", FALSE),
       Rule(s.enable_prompt_adapter,
            "--enable-prompt-adapter", FALSE),
       Rule(m.task \notin {"generate"},
            "--task " \o m.task, FALSE),
       Rule(~m.is_v1_compatible,
            m.architectures, FALSE),
       Rule(\/ s.max_num_partial_prefills # EngineArgs.max_num_partial_prefills
            \/ s.max_long_partial_prefills # EngineArgs.max_long_partial_prefills
            \/ s.long_prefill_token_threshold # EngineArgs.long_prefill_token_threshold,
            "Concurrent Partial Prefill", FALSE),
       Rule(TruthyStr(s.otlp_traces_endpoint) \/ TruthyStr(s.collect_detailed_traces),
            "--otlp-traces-endpoint", FALSE),
       Rule(/\ (s.speculative_model # None \/ s.num_speculative_tokens # None)
            /\ s.speculative_model # Some("[ngram]"),
            "Speculative Decoding", FALSE),
       Rule(s.kv_transfer_config # EngineArgs.kv_transfer_config,
            "--kv-transfer-config", FALSE) >>

(***************************************************************************)
(* The second block: experimental features, in source order.  With         *)
(* VLLM_USE_V1 each test that holds logs _experimental_warning and the     *)
(* function goes on; without it the first test that holds logs             *)
(* _fallback_info and returns False.                                       *)
(***************************************************************************)
\* Variant of the experimental rules that tests pipeline parallelism before
\* LoRA.
TierB_PipelineParallelFirst(s, m, c) ==
    << [hit |-> m.use_mla,                        feature |-> "MLA"],
       [hit |-> s.pipeline_parallel_size > 1,     feature |-> "Pipeline Parallel"],
       [hit |-> s.enable_lora,                    feature |-> "LoRA"],
       [hit |-> s.speculative_model = Some("[ngram]"),
                                                  feature |-> "ngram Speculative Decoding"],
       [hit |-> ~is_cuda(c),                      feature |-> c.device_type] >>

\* Variant of the experimental rules without the rule for non-CUDA platforms.
TierB_WithoutPlatform(s, m, c) ==
    << [hit |-> m.use_mla,                        feature |-> "MLA"],
       [hit |-> s.enable_lora,                    feature |-> "LoRA"],
       [hit |-> s.pipeline_parallel_size > 1,     feature |-> "Pipeline Parallel"],
       [hit |-> s.speculative_model = Some("[ngram]"),
                                                  feature |-> "ngram Speculative Decoding"] >>

\* Variant of the experimental rules without the MLA rule.
TierB_WithoutMLA(s, m, c) ==
    << [hit |-> s.enable_lora,                    feature |-> "LoRA"],
       [hit |-> s.pipeline_parallel_size > 1,     feature |-> "Pipeline Parallel"],
       [hit |-> s.speculative_model = Some("[ngram]"),
                                                  feature |-> "ngram Speculative Decoding"],
       [hit |-> ~is_cuda(c),                      feature |-> c.device_type] >>

TierB(s, m, c) ==
    << [hit |-> m.use_mla,                        feature |-> "MLA"],
       [hit |-> s.enable_lora,                    feature |-> "LoRA"],
       [hit |-> s.pipeline_parallel_size > 1,     feature |-> "Pipeline Parallel"],
       [hit |-> s.speculative_model = Some("[ngram]"),
                                                  feature |-> "ngram Speculative Decoding"],
       [hit |-> ~is_cuda(c),                      feature |-> c.device_type] >>

IsHit(r) == r.hit

\* Variant of the search that takes the last rule that holds.
FirstHit_TakesLast(rules) ==
    IF \E i \in 1..Len(rules) : rules[i].hit
    THEN CHOOSE i \in 1..Len(rules) :
            rules[i].hit /\ \A j \in (i + 1)..Len(rules) : ~rules[j].hit
    ELSE 0

\* index of the first rule that holds, 0 when none does
FirstHit(rules) ==
    IF \E i \in 1..Len(rules) : rules[i].hit
    THEN CHOOSE i \in 1..Len(rules) :
            rules[i].hit /\ \A j \in 1..(i - 1) : ~rules[j].hit
    ELSE 0

\* Variant of the oracle that warns about a hard-unsupported feature and
\* reports the configuration as supported.
is_v1_supported_oracle_WarnsAndAccepts(s, m, c) ==
    LET a  == TierA(s, m, c)
        i  == FirstHit(a)
        hb == SelectSeq(TierB(s, m, c), IsHit)
    IN  IF i # 0
        THEN LET r == raise_or_warning(c, a[i].feature, a[i].recommend_to_remove)
             IN  [ret |-> TRUE, error |-> r.error, notices |-> r.notices]
        ELSE IF VLLM_USE_V1(c)
        THEN [ret |-> TRUE, error |-> None,
              notices |-> [k \in 1..Len(hb) |-> experimental_warning(hb[k].feature)]]
        ELSE IF hb # <<>>
        THEN [ret |-> FALSE, error |-> None,
              notices |-> <<fallback_info(hb[1].feature)>>]
        ELSE [ret |-> TRUE, error |-> None, notices |-> <<>>]

\* Variant of the oracle in which a non-CUDA platform falls back whatever
\* the override says.
is_v1_supported_oracle_PlatformFallsBack(s, m, c) ==
    LET a  == TierA(s, m, c)
        i  == FirstHit(a)
        hb == SelectSeq(TierB(s, m, c), IsHit)
    IN  IF i # 0
        THEN LET r == raise_or_warning(c, a[i].feature, a[i].recommend_to_remove)
             IN  [ret |-> FALSE, error |-> r.error, notices |-> r.notices]
        ELSE IF ~is_cuda(c)
        THEN [ret |-> FALSE, error |-> None,
              notices |-> <<fallback_info(c.device_type)>>]
        ELSE IF VLLM_USE_V1(c)
        THEN [ret |-> TRUE, error |-> None,
              notices |-> [k \in 1..Len(hb) |-> experimental_warning(hb[k].feature)]]
        ELSE IF hb # <<>>
        THEN [ret |-> FALSE, error |-> None,
              notices |-> <<fallback_info(hb[1].feature)>>]
        ELSE [ret |-> TRUE, error |-> None, notices |-> <<>>]

\* Variant of the oracle whose experimental rules fall back whatever the
\* override says.
is_v1_supported_oracle_AlwaysFallsBack(s, m, c) ==
    LET a  == TierA(s, m, c)
        i  == FirstHit(a)
        hb == SelectSeq(TierB(s, m, c), IsHit)
    IN  IF i # 0
        THEN LET r == raise_or_warning(c, a[i].feature, a[i].recommend_to_remove)
             IN  [ret |-> FALSE, error |-> r.error, notices |-> r.notices]
        ELSE IF hb # <<>>
        THEN [ret |-> FALSE, error |-> None,
              notices |-> <<fallback_info(hb[1].feature)>>]
        ELSE [ret |-> TRUE, error |-> None, notices |-> <<>>]

\* ret: the returned bool; error: the exception raised instead, if any
is_v1_supported_oracle(s, m, c) ==
    LET a  == TierA(s, m, c)
        i  == FirstHit(a)
        hb == SelectSeq(TierB(s, m, c), IsHit)
    IN  IF i # 0
        THEN LET r == raise_or_warning(c, a[i].feature, a[i].recommend_to_remove)
             IN  [ret |-> FALSE, error |-> r.error, notices |-> r.notices]
        ELSE IF VLLM_USE_V1(c)
        THEN [ret |-> TRUE, error |-> None,
              notices |-> [k \in 1..Len(hb) |-> experimental_warning(hb[k].feature)]]
        ELSE IF hb # <<>>
        THEN [ret |-> FALSE, error |-> None,
              notices |-> <<fallback_info(hb[1].feature)>>]
        ELSE [ret |-> TRUE, error |-> None, notices |-> <<>>]

(***************************************************************************)
(* EngineArgs._set_default_args_v0                                         *)
(***************************************************************************)
LongContextThreshold == 32768

\* Variant that treats a context of exactly 32768 tokens as long.
DefaultChunkedPrefillV0_LongFromThreshold(s, m, c) ==
    LET use_long_context   == m.max_model_len >= LongContextThreshold
        is_gpu             == is_cuda(c)
        use_sliding_window == m.sliding_window # None
        use_spec_decode    == s.speculative_model # None
    IN  IF s.enable_chunked_prefill # None THEN s.enable_chunked_prefill
        ELSE IF m.is_multimodal_model \/ m.use_mla THEN Some(FALSE)
        ELSE IF /\ use_long_context
                /\ is_gpu /\ ~use_sliding_window /\ ~use_spec_decode
                /\ ~s.enable_lora /\ ~s.enable_prompt_adapter
                /\ m.runner_type # "pooling"
        THEN Some(TRUE)
        ELSE Some(FALSE)

\* the value of self.enable_chunked_prefill after the `is None` block
DefaultChunkedPrefillV0(s, m, c) ==
    LET use_long_context   == m.max_model_len > LongContextThreshold
        is_gpu             == is_cuda(c)
        use_sliding_window == m.sliding_window # None
        use_spec_decode    == s.speculative_model # None
    IN  IF s.enable_chunked_prefill # None THEN s.enable_chunked_prefill
        ELSE IF m.is_multimodal_model \/ m.use_mla THEN Some(FALSE)
        ELSE IF /\ use_long_context
                /\ is_gpu /\ ~use_sliding_window /\ ~use_spec_decode
                /\ ~s.enable_lora /\ ~s.enable_prompt_adapter
                /\ m.runner_type # "pooling"
        THEN Some(TRUE)
        ELSE Some(FALSE)

\* Variant of the conflict test that only looks at long-context models.
chunked_prefill_pooling_conflict_LongOnly(ecp, use_long_context, m) ==
    use_long_context /\ TruthyBool(ecp) /\ m.runner_type = "pooling"

\* lines 1579-1588: the `elif` branch that raises
chunked_prefill_pooling_conflict(ecp, use_long_context, m) ==
    /\ ~(~TruthyBool(ecp) /\ use_long_context)
    /\ TruthyBool(ecp) /\ m.runner_type = "pooling"

\* Variant of Legacy defaulting that sets max_num_seqs to 256 whatever it was.
set_default_args_v0_ResetsMaxNumSeqs(s, m, c) ==
    LET use_long_context == m.max_model_len > LongContextThreshold
        ecp      == DefaultChunkedPrefillV0(s, m, c)
        s1       == [s EXCEPT !.enable_chunked_prefill = ecp]
        n1       == IF s.enable_chunked_prefill = None /\ ecp = Some(TRUE)
                    THEN <<Notice("warning",
                                  "Chunked prefill is enabled by default for models with max_model_len > 32K.",
                                  "")>>
                    ELSE <<>>
        n2       == IF ~TruthyBool(ecp) /\ use_long_context
                    THEN <<Notice("warning", "The model has a long context length.", "")>>
                    ELSE <<>>
        raises   == chunked_prefill_pooling_conflict(ecp, use_long_context, m)
        off      == m.is_multimodal_model /\ TruthyBool(s1.enable_prefix_caching)
        n3       == IF off
                    THEN <<Notice("warning",
                                  "--enable-prefix-caching is not supported for multimodal models in V0 and has been disabled.",
                                  "")>>
                    ELSE <<>>
        s2       == IF off THEN [s1 EXCEPT !.enable_prefix_caching = Some(FALSE)] ELSE s1
        s3       == [s2 EXCEPT !.max_num_seqs = Some(256)]
    IN  IF raises
        THEN [self |-> s1, notices |-> n1 \o n2,
              error |-> Exception("ValueError",
                                  "Chunked prefill is not supported for pooling models", "")]
        ELSE [self |-> s3, notices |-> n1 \o n2 \o n3, error |-> None]

\* Variant of Legacy defaulting that warns about prefix caching for a
\* multimodal model and leaves it on.
set_default_args_v0_WarnsOnly(s, m, c) ==
    LET use_long_context == m.max_model_len > LongContextThreshold
        ecp      == DefaultChunkedPrefillV0(s, m, c)
        s1       == [s EXCEPT !.enable_chunked_prefill = ecp]
        n1       == IF s.enable_chunked_prefill = None /\ ecp = Some(TRUE)
                    THEN <<Notice("warning",
                                  "Chunked prefill is enabled by default for models with max_model_len > 32K.",
                                  "")>>
                    ELSE <<>>
        n2       == IF ~TruthyBool(ecp) /\ use_long_context
                    THEN <<Notice("warning", "The model has a long context length.", "")>>
                    ELSE <<>>
        raises   == chunked_prefill_pooling_conflict(ecp, use_long_context, m)
        off      == m.is_multimodal_model /\ TruthyBool(s1.enable_prefix_caching)
        n3       == IF off
                    THEN <<Notice("warning",
                                  "--enable-prefix-caching is not supported for multimodal models in V0 and has been disabled.",
                                  "")>>
                    ELSE <<>>
        s3       == IF s1.max_num_seqs = None
                    THEN [s1 EXCEPT !.max_num_seqs = Some(256)] ELSE s1
    IN  IF raises
        THEN [self |-> s1, notices |-> n1 \o n2,
              error |-> Exception("ValueError",
                                  "Chunked prefill is not supported for pooling models", "")]
        ELSE [self |-> s3, notices |-> n1 \o n2 \o n3, error |-> None]

set_default_args_v0(s, m, c) ==
    LET use_long_context == m.max_model_len > LongContextThreshold
        ecp      == DefaultChunkedPrefillV0(s, m, c)
        s1       == [s EXCEPT !.enable_chunked_prefill = ecp]
        n1       == IF s.enable_chunked_prefill = None /\ ecp = Some(TRUE)
                    THEN <<Notice("warning",
                                  "Chunked prefill is enabled by default for models with max_model_len > 32K.",
                                  "")>>
                    ELSE <<>>
        n2       == IF ~TruthyBool(ecp) /\ use_long_context
                    THEN <<Notice("warning", "The model has a long context length.", "")>>
                    ELSE <<>>
        raises   == chunked_prefill_pooling_conflict(ecp, use_long_context, m)
        off      == m.is_multimodal_model /\ TruthyBool(s1.enable_prefix_caching)
        n3       == IF off
                    THEN <<Notice("warning",
                                  "--enable-prefix-caching is not supported for multimodal models in V0 and has been disabled.",
                                  "")>>
                    ELSE <<>>
        s2       == IF off THEN [s1 EXCEPT !.enable_prefix_caching = Some(FALSE)] ELSE s1
        s3       == IF s2.max_num_seqs = None
                    THEN [s2 EXCEPT !.max_num_seqs = Some(256)] ELSE s2
    IN  IF raises
        THEN [self |-> s1, notices |-> n1 \o n2,
              error |-> Exception("ValueError",
                                  "Chunked prefill is not supported for pooling models", "")]
        ELSE [self |-> s3, notices |-> n1 \o n2 \o n3, error |-> None]

(***************************************************************************)
(* EngineArgs._set_default_args_v1                                         *)
(***************************************************************************)
\* str.lower() on the words a device name is made of
Lower(t) ==
    CASE t = "NVIDIA" -> "nvidia"
      [] t = "H100"   -> "h100"
      [] t = "H200"   -> "h200"
      [] t = "A100"   -> "a100"
      [] t = "PCIe"   -> "pcie"
      [] OTHER        -> t

\* `word in device_name.lower()`
InLowerName(word, device_name) ==
    \E i \in 1..Len(device_name) : Lower(device_name[i]) = word

\* Variant that looks for the upper-case names in the lower-cased device name.
default_max_num_batched_tokens_UpperCaseNames(device_name) ==
    IF InLowerName("H100", device_name) \/ InLowerName("H200", device_name)
    THEN [LLM_CLASS |-> 16384, OPENAI_API_SERVER |-> 8192]
    ELSE [LLM_CLASS |-> 8192,  OPENAI_API_SERVER |-> 2048]

\* the dict default_max_num_batched_tokens, per device name
default_max_num_batched_tokens(device_name) ==
    IF InLowerName("h100", device_name) \/ InLowerName("h200", device_name)
    THEN [LLM_CLASS |-> 16384, OPENAI_API_SERVER |-> 8192]
    ELSE [LLM_CLASS |-> 8192,  OPENAI_API_SERVER |-> 2048]

\* Variant of NextGen defaulting that writes the table value over an explicit
\* max_num_batched_tokens.
set_default_args_v1_ReplacesBatchedTokens(s, usage_context, c) ==
    LET table == default_max_num_batched_tokens(c.device_name)
        s1 == [s EXCEPT !.enable_chunked_prefill = Some(TRUE)]
        s2 == IF /\ usage_context # None
                 /\ Get(usage_context) \in DOMAIN table
              THEN [s1 EXCEPT !.max_num_batched_tokens = Some(table[Get(usage_context)])]
              ELSE s1
        s3 == IF s2.max_num_seqs = None
              THEN [s2 EXCEPT !.max_num_seqs = Some(1024)] ELSE s2
    IN  [self |-> s3, notices |-> <<>>, error |-> None]

\* Variant of NextGen defaulting that keeps an explicit enable_chunked_prefill.
set_default_args_v1_KeepsExplicit(s, usage_context, c) ==
    LET table == default_max_num_batched_tokens(c.device_name)
        s1 == IF s.enable_chunked_prefill = None
              THEN [s EXCEPT !.enable_chunked_prefill = Some(TRUE)] ELSE s
        s2 == IF /\ s1.max_num_batched_tokens = None
                 /\ usage_context # None
                 /\ Get(usage_context) \in DOMAIN table
              THEN [s1 EXCEPT !.max_num_batched_tokens = Some(table[Get(usage_context)])]
              ELSE s1
        s3 == IF s2.max_num_seqs = None
              THEN [s2 EXCEPT !.max_num_seqs = Some(1024)] ELSE s2
    IN  [self |-> s3, notices |-> <<>>, error |-> None]

set_default_args_v1(s, usage_context, c) ==
    LET table == default_max_num_batched_tokens(c.device_name)
        s1 == [s EXCEPT !.enable_chunked_prefill = Some(TRUE)]
        s2 == IF /\ s1.max_num_batched_tokens = None
                 /\ usage_context # None
                 /\ Get(usage_context) \in DOMAIN table
              THEN [s1 EXCEPT !.max_num_batched_tokens = Some(table[Get(usage_context)])]
              ELSE s1
        default_max_num_seqs == 1024
        s3 == IF s2.max_num_seqs = None
              THEN [s2 EXCEPT !.max_num_seqs = Some(default_max_num_seqs)] ELSE s2
    IN  [self |-> s3, notices |-> <<>>, error |-> None]

(***************************************************************************)
(* EngineArgs.create_load_config                                           *)
(***************************************************************************)
\* Variant of create_load_config without the second test.
create_load_config_OneWay(s) ==
    IF /\ (s.quantization = Some("bitsandbytes") \/ s.qlora_adapter_name_or_path # None)
       /\ s.load_format # "bitsandbytes"
    THEN [config |-> None,
          error  |-> Exception("ValueError",
                               "BitsAndBytes quantization and QLoRA adapter only support 'bitsandbytes' load format",
                               s.load_format)]
    ELSE [config |-> Some([load_format |-> s.load_format,
                           model_loader_extra_config |-> s.model_loader_extra_config]),
          error  |-> None]

create_load_config(s) ==
    IF /\ (s.quantization = Some("bitsandbytes") \/ s.qlora_adapter_name_or_path # None)
       /\ s.load_format # "bitsandbytes"
    THEN [config |-> None,
          error  |-> Exception("ValueError",
                               "BitsAndBytes quantization and QLoRA adapter only support 'bitsandbytes' load format",
                               s.load_format)]
    ELSE IF /\ (s.load_format = "bitsandbytes" \/ s.qlora_adapter_name_or_path # None)
            /\ s.quantization # Some("bitsandbytes")
    THEN [config |-> None,
          error  |-> Exception("ValueError",
                               "BitsAndBytes load format and QLoRA adapter only support 'bitsandbytes' quantization",
                               IF s.quantization = None THEN "None" ELSE Get(s.quantization))]
    ELSE [config |-> Some([load_format |-> s.load_format,
                           model_loader_extra_config |-> s.model_loader_extra_config]),
          error  |-> None]

(***************************************************************************)
(* Constructors of vllm.config that create_engine_config calls.            *)
(***************************************************************************)
\* SpeculativeConfig.maybe_create_spec_config: absent without a draft model
maybe_create_spec_config(s, c) ==
    IF s.speculative_model = None THEN None
    ELSE Some([draft_model |-> Get(s.speculative_model),
               num_lookahead_slots |-> c.spec_lookahead])

\* SchedulerConfig(...): validates the invariant num_lookahead_slots >= 0
SchedulerConfig_verify_args(num_lookahead_slots) ==
    IF num_lookahead_slots < 0
    THEN Exception("ValueError",
                   "num_lookahead_slots must be greater than or equal to 0", "")
    ELSE None

\* LoRAConfig(...): max_cpu_loras left as None becomes max_loras
LoRAConfig(max_loras, max_cpu_loras) ==
    [max_loras     |-> max_loras,
     max_cpu_loras |-> IF max_cpu_loras = None THEN max_loras ELSE Get(max_cpu_loras)]

NoConfigs ==
    [ device_config         |-> None,
      model_config          |-> None,
      cache_config          |-> None,
      parallel_config       |-> None,
      speculative_config    |-> None,
      scheduler_config      |-> None,
      lora_config           |-> None,
      load_config           |-> None,
      prompt_adapter_config |-> None,
      decoding_config       |-> None,
      observability_config  |-> None ]

(***************************************************************************)
(* Initial state: create_engine_config is about to run on the caller's     *)
(* EngineArgs.                                                             *)
(***************************************************************************)
Init ==
    /\ IsWorld(ctx)
    /\ self = ctx.self
    /\ pc = "create_model_config"
    /\ use_v1 = FALSE
    /\ configs = NoConfigs
    /\ built = <<>>
    /\ notices = <<>>
    /\ error = None
    /\ result = None
    /\ calls = 1
    /\ previous = None

\* an exception leaves create_engine_config
Raise(e) ==
    /\ pc' = "failed"
    /\ error' = e

(***************************************************************************)
(* lines 1165-1166 with create_model_config (1083-1132)                    *)
(***************************************************************************)
create_model_config(s, c) ==
    LET s1 == IF c.is_gguf_file
              THEN [s EXCEPT !.quantization = Some("gguf"), !.load_format = "gguf"]
              ELSE s
        s2 == IF c.ci_model_on_s3 /\ s1.load_format = "auto"
              THEN [s1 EXCEPT !.model = "MODEL_WEIGHTS_S3_BUCKET/" \o s1.model,
                              !.load_format = "runai_streamer"]
              ELSE s1
    IN  [self   |-> s2,
         config |-> [ task                |-> c.task,
                      runner_type         |-> RunnerType(c.task),
                      is_v1_compatible    |-> c.is_v1_compatible,
                      use_mla             |-> c.use_mla,
                      is_multimodal_model |-> c.is_multimodal_model,
                      sliding_window      |-> c.sliding_window,
                      max_model_len       |-> c.max_model_len,
                      architectures       |-> c.architectures,
                      quantization        |-> s2.quantization ]]

CreateModelConfig ==
    /\ pc = "create_model_config"
    /\ LET r == create_model_config(self, ctx)
       IN  /\ self' = r.self
           /\ configs' = [configs EXCEPT
                            !.device_config = Some([device |-> ctx.device_type]),
                            !.model_config  = Some(r.config)]
    /\ built' = built \o <<"device_config", "model_config">>
    /\ pc' = "oracle"
    /\ UNCHANGED <<ctx, use_v1, notices, error, result, calls, previous>>

(***************************************************************************)
(* lines 1173-1189: the engine version                                     *)
(***************************************************************************)
\* Variant of the choice that applies the opt-in policy also under an
\* explicit override.
select_use_v1_PolicyUnderOverride(oracle_ret, c) ==
    oracle_ret /\ (VLLM_USE_V1(c) \/ VLLM_USE_V1_BY_DEFAULT(c))

\* use_v1 after line 1186, given what the oracle returned
select_use_v1(oracle_ret, c) ==
    LET try_by_default == ~is_set_VLLM_USE_V1(c) /\ VLLM_USE_V1_BY_DEFAULT(c)
    IN  oracle_ret /\ (VLLM_USE_V1(c) \/ try_by_default)

SelectEngine ==
    /\ pc = "oracle"
    /\ LET o == is_v1_supported_oracle(self, Get(configs.model_config), ctx)
           v == select_use_v1(o.ret, ctx)
           compatible == IF o.ret /\ ~v
                         THEN <<Notice("info", "Detected EngineConfig is compatible with VLLM V1", "")>>
                         ELSE <<>>
       IN  IF o.error # None
           THEN /\ Raise(o.error)
                /\ UNCHANGED <<use_v1, notices>>
           ELSE /\ use_v1' = v
                /\ notices' = notices \o o.notices \o compatible
                /\ IF is_set_VLLM_USE_V1(ctx) /\ v # VLLM_USE_V1(ctx)
                   THEN Raise(Exception("AssertionError", "use_v1 == envs.VLLM_USE_V1", ""))
                   ELSE pc' = "set_defaults" /\ UNCHANGED error
    /\ UNCHANGED <<self, ctx, configs, built, result, calls, previous>>

(***************************************************************************)
(* lines 1192-1195: defaulting                                             *)
(***************************************************************************)
ApplyDefaults(r) ==
    /\ self' = r.self
    /\ notices' = notices \o r.notices
    /\ IF r.error # None THEN Raise(r.error)
       ELSE pc' = "cache_config" /\ UNCHANGED error
    /\ UNCHANGED <<ctx, use_v1, configs, built, result, calls, previous>>

SetDefaultArgsV1 ==
    /\ pc = "set_defaults"
    /\ use_v1
    /\ ApplyDefaults(set_default_args_v1(self, ctx.usage_context, ctx))

SetDefaultArgsV0 ==
    /\ pc = "set_defaults"
    /\ ~use_v1
    /\ ApplyDefaults(set_default_args_v0(self, Get(configs.model_config), ctx))

(***************************************************************************)
(* lines 1197-1250: CacheConfig, ParallelConfig, SpeculativeConfig         *)
(***************************************************************************)
CreateCacheConfig ==
    /\ pc = "cache_config"
    /\ configs' = [configs EXCEPT !.cache_config =
                      Some([ cache_dtype           |-> self.kv_cache_dtype,
                             sliding_window        |-> Get(configs.model_config).sliding_window,
                             enable_prefix_caching |-> self.enable_prefix_caching,
                             use_v1                |-> use_v1 ])]
    /\ built' = Append(built, "cache_config")
    /\ pc' = "parallel_config"
    /\ UNCHANGED <<self, ctx, use_v1, notices, error, result, calls, previous>>

CreateParallelConfig ==
    /\ pc = "parallel_config"
    /\ configs' = [configs EXCEPT !.parallel_config =
                      Some([ pipeline_parallel_size |-> self.pipeline_parallel_size,
                             worker_cls             |-> self.worker_cls ])]
    /\ built' = Append(built, "parallel_config")
    /\ pc' = "speculative_config"
    /\ UNCHANGED <<self, ctx, use_v1, notices, error, result, calls, previous>>

CreateSpeculativeConfig ==
    /\ pc = "speculative_config"
    /\ configs' = [configs EXCEPT !.speculative_config =
                      maybe_create_spec_config(self, ctx)]
    /\ built' = Append(built, "speculative_config")
    /\ pc' = "multi_step"
    /\ UNCHANGED <<self, ctx, use_v1, notices, error, result, calls, previous>>

(***************************************************************************)
(* lines 1254-1266: multi-step scheduling                                  *)
(***************************************************************************)
\* Variant of the multi-step checks that tests chunked prefill before
\* speculative decoding.
check_multi_step_ChunkedPrefillFirst(s, speculative_config, c) ==
    IF s.num_scheduler_steps > 1
    THEN IF TruthyBool(s.enable_chunked_prefill) /\ s.pipeline_parallel_size > 1
         THEN [self |-> s, notices |-> <<>>,
               error |-> Exception("ValueError",
                                   "Multi-Step Chunked-Prefill is not supported for pipeline-parallel-size > 1",
                                   "")]
         ELSE IF speculative_config # None
         THEN [self |-> s, notices |-> <<>>,
               error |-> Exception("ValueError",
                                   "Speculative decoding is not supported with multi-step (--num-scheduler-steps > 1)",
                                   "")]
         ELSE IF is_cpu(c)
         THEN [self |-> [s EXCEPT !.num_scheduler_steps = 1],
               notices |-> <<Notice("warning",
                                    "Multi-Step (--num-scheduler-steps > 1) is currently not supported for CPUs and has been disabled.",
                                    "")>>,
               error |-> None]
         ELSE [self |-> s, notices |-> <<>>, error |-> None]
    ELSE [self |-> s, notices |-> <<>>, error |-> None]

\* Variant of the multi-step checks that disables multi-step on a CPU
\* before it tests speculative decoding and chunked prefill.
check_multi_step_ClampsFirst(s, speculative_config, c) ==
    IF s.num_scheduler_steps > 1
    THEN IF is_cpu(c)
         THEN [self |-> [s EXCEPT !.num_scheduler_steps = 1],
               notices |-> <<Notice("warning",
                                    "Multi-Step (--num-scheduler-steps > 1) is currently not supported for CPUs and has been disabled.",
                                    "")>>,
               error |-> None]
         ELSE IF speculative_config # None
         THEN [self |-> s, notices |-> <<>>,
               error |-> Exception("ValueError",
                                   "Speculative decoding is not supported with multi-step (--num-scheduler-steps > 1)",
                                   "")]
         ELSE IF TruthyBool(s.enable_chunked_prefill) /\ s.pipeline_parallel_size > 1
         THEN [self |-> s, notices |-> <<>>,
               error |-> Exception("ValueError",
                                   "Multi-Step Chunked-Prefill is not supported for pipeline-parallel-size > 1",
                                   "")]
         ELSE [self |-> s, notices |-> <<>>, error |-> None]
    ELSE [self |-> s, notices |-> <<>>, error |-> None]

\* Variant of the multi-step checks without the chunked-prefill test.
check_multi_step_AllowsChunkedPrefill(s, speculative_config, c) ==
    IF s.num_scheduler_steps > 1
    THEN IF speculative_config # None
         THEN [self |-> s, notices |-> <<>>,
               error |-> Exception("ValueError",
                                   "Speculative decoding is not supported with multi-step (--num-scheduler-steps > 1)",
                                   "")]
         ELSE IF is_cpu(c)
         THEN [self |-> [s EXCEPT !.num_scheduler_steps = 1],
               notices |-> <<Notice("warning",
                                    "Multi-Step (--num-scheduler-steps > 1) is currently not supported for CPUs and has been disabled.",
                                    "")>>,
               error |-> None]
         ELSE [self |-> s, notices |-> <<>>, error |-> None]
    ELSE [self |-> s, notices |-> <<>>, error |-> None]

\* Variant of the multi-step checks without the speculative-decoding test.
check_multi_step_AllowsSpeculative(s, speculative_config, c) ==
    IF s.num_scheduler_steps > 1
    THEN IF TruthyBool(s.enable_chunked_prefill) /\ s.pipeline_parallel_size > 1
         THEN [self |-> s, notices |-> <<>>,
               error |-> Exception("ValueError",
                                   "Multi-Step Chunked-Prefill is not supported for pipeline-parallel-size > 1",
                                   "")]
         ELSE IF is_cpu(c)
         THEN [self |-> [s EXCEPT !.num_scheduler_steps = 1],
               notices |-> <<>>, error |-> None]
         ELSE [self |-> s, notices |-> <<>>, error |-> None]
    ELSE [self |-> s, notices |-> <<>>, error |-> None]

check_multi_step(s, speculative_config, c) ==
    IF s.num_scheduler_steps > 1
    THEN IF speculative_config # None
         THEN [self |-> s, notices |-> <<>>,
               error |-> Exception("ValueError",
                                   "Speculative decoding is not supported with multi-step (--num-scheduler-steps > 1)",
                                   "")]
         ELSE IF TruthyBool(s.enable_chunked_prefill) /\ s.pipeline_parallel_size > 1
         THEN [self |-> s, notices |-> <<>>,
               error |-> Exception("ValueError",
                                   "Multi-Step Chunked-Prefill is not supported for pipeline-parallel-size > 1",
                                   "")]
         ELSE IF is_cpu(c)
         THEN [self |-> [s EXCEPT !.num_scheduler_steps = 1],
               notices |-> <<Notice("warning",
                                    "Multi-Step (--num-scheduler-steps > 1) is currently not supported for CPUs and has been disabled.",
                                    "")>>,
               error |-> None]
         ELSE [self |-> s, notices |-> <<>>, error |-> None]
    ELSE [self |-> s, notices |-> <<>>, error |-> None]

\* Variant of the multi-step step that tests the chunked-prefill value the
\* caller passed, not the one defaulting left in self.
CheckMultiStep_ReadsRequest ==
    /\ pc = "multi_step"
    /\ LET asked == [self EXCEPT !.enable_chunked_prefill = ctx.self.enable_chunked_prefill]
           r     == check_multi_step(asked, configs.speculative_config, ctx)
       IN  /\ self' = [r.self EXCEPT !.enable_chunked_prefill = self.enable_chunked_prefill]
           /\ notices' = notices \o r.notices
           /\ IF r.error # None THEN Raise(r.error)
              ELSE pc' = "scheduler_config" /\ UNCHANGED error
    /\ UNCHANGED <<ctx, use_v1, configs, built, result, calls, previous>>

CheckMultiStep ==
    /\ pc = "multi_step"
    /\ LET r == check_multi_step(self, configs.speculative_config, ctx)
       IN  /\ self' = r.self
           /\ notices' = notices \o r.notices
           /\ IF r.error # None THEN Raise(r.error)
              ELSE pc' = "scheduler_config" /\ UNCHANGED error
    /\ UNCHANGED <<ctx, use_v1, configs, built, result, calls, previous>>

(***************************************************************************)
(* lines 1268-1295: SchedulerConfig                                        *)
(***************************************************************************)
\* Variant of the lookahead resolution that takes the larger of the
\* multi-step value and the mandated one.
resolve_num_lookahead_slots_TakesMax(s, speculative_config) ==
    LET num_lookahead_slots == Max(s.num_lookahead_slots, s.num_scheduler_steps - 1)
    IN  IF speculative_config = None
        THEN num_lookahead_slots
        ELSE Max(num_lookahead_slots, Get(speculative_config).num_lookahead_slots)

\* Variant of the lookahead resolution that leaves out the multi-step term.
resolve_num_lookahead_slots_IgnoresSteps(s, speculative_config) ==
    IF speculative_config = None
    THEN s.num_lookahead_slots
    ELSE Get(speculative_config).num_lookahead_slots

resolve_num_lookahead_slots(s, speculative_config) ==
    LET num_lookahead_slots == Max(s.num_lookahead_slots, s.num_scheduler_steps - 1)
    IN  IF speculative_config = None
        THEN num_lookahead_slots
        ELSE Get(speculative_config).num_lookahead_slots

\* Variant of the scheduler step that goes on to create_load_config.
CreateSchedulerConfig_ThenLoad ==
    /\ pc = "scheduler_config"
    /\ LET m == Get(configs.model_config)
       IN  configs' = [configs EXCEPT !.scheduler_config =
                Some([ runner_type            |-> m.runner_type,
                       max_num_batched_tokens |-> self.max_num_batched_tokens,
                       max_num_seqs           |-> self.max_num_seqs,
                       max_model_len          |-> m.max_model_len,
                       num_lookahead_slots    |->
                           resolve_num_lookahead_slots(self, configs.speculative_config),
                       enable_chunked_prefill |-> self.enable_chunked_prefill,
                       num_scheduler_steps    |-> self.num_scheduler_steps,
                       policy                 |-> self.scheduling_policy ])]
    /\ built' = Append(built, "scheduler_config")
    /\ pc' = "load_config"
    /\ UNCHANGED <<self, ctx, use_v1, notices, error, result, calls, previous>>

CreateSchedulerConfig ==
    /\ pc = "scheduler_config"
    /\ LET m == Get(configs.model_config)
           num_lookahead_slots ==
               resolve_num_lookahead_slots(self, configs.speculative_config)
           e == SchedulerConfig_verify_args(num_lookahead_slots)
       IN  IF e # None
           THEN /\ Raise(e)
                /\ UNCHANGED <<configs, built>>
           ELSE /\ configs' = [configs EXCEPT !.scheduler_config =
                     Some([ runner_type            |-> m.runner_type,
                            max_num_batched_tokens |-> self.max_num_batched_tokens,
                            max_num_seqs           |-> self.max_num_seqs,
                            max_model_len          |-> m.max_model_len,
                            num_lookahead_slots    |-> num_lookahead_slots,
                            enable_chunked_prefill |-> self.enable_chunked_prefill,
                            num_scheduler_steps    |-> self.num_scheduler_steps,
                            policy                 |-> self.scheduling_policy ])]
                /\ built' = Append(built, "scheduler_config")
                /\ pc' = "lora_config"
                /\ UNCHANGED error
    /\ UNCHANGED <<self, ctx, use_v1, notices, result, calls, previous>>

(***************************************************************************)
(* lines 1297-1306: LoRAConfig                                             *)
(***************************************************************************)
\* Variant that passes every non-zero max_cpu_loras on to LoRAConfig.
create_lora_config_PassesNegative(s) ==
    IF s.enable_lora
    THEN Some(LoRAConfig(s.max_loras,
                         IF TruthyInt(s.max_cpu_loras)
                         THEN s.max_cpu_loras ELSE None))
    ELSE None

\* Variant in which the test on max_cpu_loras decides the whole LoRAConfig
\* and not only its max_cpu_loras argument.
create_lora_config_CpuLorasDecide(s) ==
    IF s.enable_lora /\ (s.max_cpu_loras = None \/ Get(s.max_cpu_loras) > 0)
    THEN Some(LoRAConfig(s.max_loras, s.max_cpu_loras))
    ELSE None

create_lora_config(s) ==
    IF s.enable_lora
    THEN Some(LoRAConfig(s.max_loras,
                         IF TruthyInt(s.max_cpu_loras) /\ Get(s.max_cpu_loras) > 0
                         THEN s.max_cpu_loras ELSE None))
    ELSE None

CreateLoRAConfig ==
    /\ pc = "lora_config"
    /\ configs' = [configs EXCEPT !.lora_config = create_lora_config(self)]
    /\ built' = Append(built, "lora_config")
    /\ pc' = "load_config"
    /\ UNCHANGED <<self, ctx, use_v1, notices, error, result, calls, previous>>

(***************************************************************************)
(* lines 1308-1315: LoadConfig                                             *)
(***************************************************************************)
\* Variant that moves the adapter path into the extra config and clears the
\* option it came from.
set_qlora_extra_config_MovesPath(s) ==
    IF s.qlora_adapter_name_or_path # None /\ s.qlora_adapter_name_or_path # Some("")
    THEN [s EXCEPT !.model_loader_extra_config =
                       Some([qlora_adapter_name_or_path |-> Get(s.qlora_adapter_name_or_path)]),
                   !.qlora_adapter_name_or_path = None]
    ELSE s

\* self after lines 1308-1313
set_qlora_extra_config(s) ==
    IF s.qlora_adapter_name_or_path # None /\ s.qlora_adapter_name_or_path # Some("")
    THEN [s EXCEPT !.model_loader_extra_config =
             Some([qlora_adapter_name_or_path |-> Get(s.qlora_adapter_name_or_path)])]
    ELSE s

CreateLoadConfig ==
    /\ pc = "load_config"
    /\ LET s1 == set_qlora_extra_config(self)
           r  == create_load_config(s1)
       IN  /\ self' = s1
           /\ IF r.error # None
              THEN /\ Raise(r.error)
                   /\ UNCHANGED <<configs, built>>
              ELSE /\ configs' = [configs EXCEPT !.load_config = r.config]
                   /\ built' = Append(built, "load_config")
                   /\ pc' = "prompt_adapter_config"
                   /\ UNCHANGED error
    /\ UNCHANGED <<ctx, use_v1, notices, result, calls, previous>>

(***************************************************************************)
(* lines 1317-1326: PromptAdapterConfig and DecodingConfig                 *)
(***************************************************************************)
CreatePromptAdapterConfig ==
    /\ pc = "prompt_adapter_config"
    /\ configs' = [configs EXCEPT
                      !.prompt_adapter_config =
                          IF self.enable_prompt_adapter
                          THEN Some([max_prompt_adapters |-> 1]) ELSE None,
                      !.decoding_config =
                          Some([guided_decoding_backend |-> self.guided_decoding_backend])]
    /\ built' = built \o <<"prompt_adapter_config", "decoding_config">>
    /\ pc' = "observability_config"
    /\ UNCHANGED <<self, ctx, use_v1, notices, error, result, calls, previous>>

(***************************************************************************)
(* lines 1333-1348: ObservabilityConfig                                    *)
(***************************************************************************)
detailed_trace_modules(s) ==
    IF s.collect_detailed_traces # None
    THEN Split(Get(s.collect_detailed_traces))
    ELSE <<>>

IsInvalidModule(m) == ~InSeq(m, ALLOWED_DETAILED_TRACE_MODULES)

\* Variant of the module validation that reports the last invalid module.
create_observability_config_NamesLast(s) ==
    LET mods == detailed_trace_modules(s)
        bad  == SelectSeq(mods, IsInvalidModule)
    IN  IF bad # <<>>
        THEN [config |-> None,
              error  |-> Exception("ValueError",
                                   "Invalid module in collect_detailed_traces",
                                   bad[Len(bad)])]
        ELSE [config |-> Some([ otlp_traces_endpoint       |-> s.otlp_traces_endpoint,
                                collect_model_forward_time |->
                                    InSeq("model", mods) \/ InSeq("all", mods),
                                collect_model_execute_time |->
                                    InSeq("worker", mods) \/ InSeq("all", mods) ]),
              error  |-> None]

create_observability_config(s) ==
    LET mods == detailed_trace_modules(s)
        bad  == SelectSeq(mods, IsInvalidModule)
    IN  IF bad # <<>>
        THEN [config |-> None,
              error  |-> Exception("ValueError",
                                   "Invalid module in collect_detailed_traces", bad[1])]
        ELSE [config |-> Some([ otlp_traces_endpoint       |-> s.otlp_traces_endpoint,
                                collect_model_forward_time |->
                                    InSeq("model", mods) \/ InSeq("all", mods),
                                collect_model_execute_time |->
                                    InSeq("worker", mods) \/ InSeq("all", mods) ]),
              error  |-> None]

CreateObservabilityConfig ==
    /\ pc = "observability_config"
    /\ LET r == create_observability_config(self)
       IN  IF r.error # None
           THEN /\ Raise(r.error)
                /\ UNCHANGED <<configs, built>>
           ELSE /\ configs' = [configs EXCEPT !.observability_config = r.config]
                /\ built' = Append(built, "observability_config")
                /\ pc' = "vllm_config"
                /\ UNCHANGED error
    /\ UNCHANGED <<self, ctx, use_v1, notices, result, calls, previous>>

(***************************************************************************)
(* lines 1350-1368: VllmConfig                                             *)
(***************************************************************************)
CreateVllmConfig ==
    /\ pc = "vllm_config"
    /\ result' = Some([configs |-> configs, use_v1 |-> use_v1])
    /\ pc' = "done"
    /\ UNCHANGED <<self, ctx, use_v1, configs, built, notices, error, calls, previous>>

Next ==
    \/ CreateModelConfig
    \/ SelectEngine
    \/ SetDefaultArgsV1
    \/ SetDefaultArgsV0
    \/ CreateCacheConfig
    \/ CreateParallelConfig
    \/ CreateSpeculativeConfig
    \/ CheckMultiStep
    \/ CreateSchedulerConfig
    \/ CreateLoRAConfig
    \/ CreateLoadConfig
    \/ CreatePromptAdapterConfig
    \/ CreateObservabilityConfig
    \/ CreateVllmConfig

Spec == Init /\ [][Next]_vars

\* type and shape of the state
TypeOK ==
    /\ pc \in {"create_model_config", "oracle", "set_defaults", "cache_config",
               "parallel_config", "speculative_config", "multi_step",
               "scheduler_config", "lora_config", "load_config",
               "prompt_adapter_config", "observability_config", "vllm_config",
               "done", "failed"}
    /\ use_v1 \in BOOLEAN
    /\ (pc = "failed") = (error # None)
    /\ (pc = "done") = (result # None)
    /\ calls \in 1..MaxCalls
    /\ (calls = 1) = (previous = None)

(***************************************************************************)
(* The caller calls create_engine_config again on the same EngineArgs      *)
(* object, which keeps what the call before wrote into it.                 *)
(***************************************************************************)
Outcome == [result |-> result, error |-> error]

CallAgain ==
    /\ pc \in {"done", "failed"}
    /\ calls < MaxCalls
    /\ calls' = calls + 1
    /\ previous' = Some(Outcome)
    /\ ctx' = [ctx EXCEPT !.self = self]
    /\ pc' = "create_model_config"
    /\ use_v1' = FALSE
    /\ configs' = NoConfigs
    /\ built' = <<>>
    /\ notices' = <<>>
    /\ error' = None
    /\ result' = None
    /\ UNCHANGED self

NextTwice == Next \/ CallAgain

SpecTwice == Init /\ [][NextTwice]_vars

(***************************************************************************)
(* Vocabulary of the properties.  The option set is the caller's           *)
(* EngineArgs, ctx.self; the predicates below are written over it and over *)
(* the collaborators' answers, not over the oracle's rule tables.          *)
(***************************************************************************)
args == ctx.self

ForcedNextGen == ctx.use_v1_env = "1"

ForcedLegacy == ctx.use_v1_env = "0"

OverrideUnset == ctx.use_v1_env = "unset"

OptInByDefault == ctx.use_v1_by_default

PoolingTask == ctx.task \in {"embed", "classify", "score", "reward"}

\* some hard-unsupported (Tier-A) feature is requested
HardUnsupported ==
    \/ args.logits_processor_pattern # None
    \/ args.preemption_mode # None
    \/ args.disable_async_output_proc
    \/ args.scheduling_policy # "fcfs"
    \/ args.scheduler_cls # "vllm.core.scheduler.Scheduler"
    \/ args.worker_cls # "auto"
    \/ args.num_scheduler_steps # 1
    \/ args.scheduler_delay_factor # 0
    \/ args.additional_config # None
    \/ args.guided_decoding_backend # "xgrammar"
    \/ (ctx.device_type = "cuda" /\ ctx.capability_major < 8)
    \/ args.kv_cache_dtype # "auto"
    \/ args.enable_prompt_adapter
    \/ ctx.task # "generate"
    \/ ~ctx.is_v1_compatible
    \/ args.max_num_partial_prefills # Some(1)
    \/ args.max_long_partial_prefills # Some(1)
    \/ args.long_prefill_token_threshold # Some(0)
    \/ (args.otlp_traces_endpoint # None /\ args.otlp_traces_endpoint # Some(""))
    \/ (args.collect_detailed_traces # None /\ args.collect_detailed_traces # Some(<<>>))
    \/ (/\ (args.speculative_model # None \/ args.num_speculative_tokens # None)
        /\ args.speculative_model # Some("[ngram]"))
    \/ args.kv_transfer_config # None

\* some experimental (Tier-B) feature is requested
Experimental ==
    \/ ctx.use_mla
    \/ args.enable_lora
    \/ args.pipeline_parallel_size > 1
    \/ args.speculative_model = Some("[ngram]")
    \/ ctx.device_type # "cuda"

\* the statements of lines 1173-1189 have run
OracleRan == pc \notin {"create_model_config", "oracle"}

Failed == pc = "failed"

FailedWith(type) == pc = "failed" /\ error # None /\ Get(error).type = type

FailedSaying(msg) == pc = "failed" /\ error # None /\ Get(error).msg = msg

HasNotice(level, msg) ==
    \E i \in 1..Len(notices) : notices[i].level = level /\ notices[i].msg = msg

IsBuilt(name) == InSeq(name, built)

FallbackWarning ==
    \/ HasNotice("warning", "is not supported by the V1 Engine. Falling back to V0.")
    \/ HasNotice("warning",
                 "is not supported by the V1 Engine. Falling back to V0. We recommend to remove")

ExperimentalWarning ==
    HasNotice("warning", "Detected VLLM_USE_V1=1. Usage should be considered experimental.")

FallbackInfo ==
    HasNotice("info", "is experimental on VLLM_USE_V1=1. Falling back to V0 Engine.")

(***************************************************************************)
(* C1.  When a hard-unsupported (Tier-A) feature is requested: under a     *)
(* forced NextGen override the resolution fails in the oracle              *)
(* (NotImplementedError) and returns nothing; under an unset or            *)
(* forced-Legacy override Legacy is chosen, a warning notice is emitted    *)
(* and the oracle does not fail.                                           *)
(***************************************************************************)
C1_HardUnsupported ==
    (HardUnsupported /\ OracleRan) =>
        IF ForcedNextGen
        THEN FailedWith("NotImplementedError") /\ result = None
        ELSE /\ use_v1 = FALSE
             /\ FallbackWarning
             /\ ~FailedWith("NotImplementedError")
             /\ ~FailedWith("AssertionError")

C1_Witness ==
    /\ args.scheduling_policy = "priority"
    /\ ForcedNextGen
    /\ FailedWith("NotImplementedError")
    /\ Get(error).about = "--scheduling-policy"

(***************************************************************************)
(* C2.  When no Tier-A feature but some experimental (Tier-B) feature is   *)
(* requested: under a forced NextGen override NextGen is chosen with an    *)
(* experimental-usage warning; otherwise Legacy is chosen with an          *)
(* informational fallback notice; the oracle fails in neither case.        *)
(***************************************************************************)
C2_Experimental ==
    (~HardUnsupported /\ Experimental /\ OracleRan) =>
        /\ ~FailedWith("NotImplementedError")
        /\ ~FailedWith("AssertionError")
        /\ IF ForcedNextGen
           THEN use_v1 = TRUE /\ ExperimentalWarning /\ ~FallbackInfo
           ELSE use_v1 = FALSE /\ FallbackInfo /\ ~ExperimentalWarning

C2_Witness ==
    /\ args.enable_lora
    /\ ~HardUnsupported
    /\ OverrideUnset
    /\ pc = "done"
    /\ ~use_v1
    /\ FallbackInfo

(***************************************************************************)
(* C3.  When neither a Tier-A nor a Tier-B feature is requested, NextGen   *)
(* is chosen exactly when the override forces NextGen, or the override is  *)
(* unset and the opt-in-by-default policy is active.                       *)
(***************************************************************************)
C3_NoRuleMatches ==
    (~HardUnsupported /\ ~Experimental /\ OracleRan) =>
        /\ use_v1 = (ForcedNextGen \/ (OverrideUnset /\ OptInByDefault))
        /\ ~FailedWith("NotImplementedError")
        /\ ~FailedWith("AssertionError")

C3_Witness ==
    /\ ~HardUnsupported /\ ~Experimental
    /\ OverrideUnset /\ ~OptInByDefault
    /\ pc = "done"
    /\ ~use_v1
    /\ HasNotice("info", "Detected EngineConfig is compatible with VLLM V1")

(***************************************************************************)
(* C4.  As stated: with every Tier-A flag at its default, NextGen is       *)
(* chosen when the override is unset and the opt-in policy is active, and  *)
(* Legacy otherwise.                                                       *)
(***************************************************************************)
C4_AsStated ==
    (~HardUnsupported /\ OracleRan) =>
        use_v1 = (OverrideUnset /\ OptInByDefault)

(***************************************************************************)
(* C4, amended.  With every Tier-A flag at its default, NextGen is chosen  *)
(* exactly when the override forces NextGen, or the override is unset, the *)
(* opt-in policy is active and no experimental (Tier-B) feature is         *)
(* requested; Legacy otherwise.                                            *)
(***************************************************************************)
C4_TierADefault ==
    (~HardUnsupported /\ OracleRan) =>
        use_v1 = (\/ ForcedNextGen
                  \/ (OverrideUnset /\ OptInByDefault /\ ~Experimental))

C4_Witness ==
    /\ ~HardUnsupported
    /\ ForcedNextGen
    /\ ctx.use_mla
    /\ pc = "done"
    /\ use_v1

(***************************************************************************)
(* C5.  create_load_config succeeds only when quantization 'bitsandbytes'  *)
(* and load format 'bitsandbytes' occur together or not at all, and a set  *)
(* QLoRA adapter path requires both; every mismatch fails with a           *)
(* ValueError and no LoadConfig.  (self is the object create_load_config   *)
(* reads.)                                                                 *)
(***************************************************************************)
LoadConsistent ==
    /\ (self.quantization = Some("bitsandbytes")) = (self.load_format = "bitsandbytes")
    /\ self.qlora_adapter_name_or_path # None =>
          (self.quantization = Some("bitsandbytes") /\ self.load_format = "bitsandbytes")

\* create_load_config has been called
LoadConfigRan == IsBuilt("lora_config") /\ pc # "load_config"

BitsAndBytesError ==
    \/ FailedSaying("BitsAndBytes quantization and QLoRA adapter only support 'bitsandbytes' load format")
    \/ FailedSaying("BitsAndBytes load format and QLoRA adapter only support 'bitsandbytes' quantization")

C5_LoadFormatConsistency ==
    LoadConfigRan =>
        IF LoadConsistent
        THEN IsBuilt("load_config") /\ configs.load_config # None /\ ~BitsAndBytesError
        ELSE /\ BitsAndBytesError /\ FailedWith("ValueError")
             /\ ~IsBuilt("load_config") /\ configs.load_config = None /\ result = None

C5_Witness ==
    /\ args.quantization = Some("bitsandbytes")
    /\ args.load_format = "auto"
    /\ FailedSaying("BitsAndBytes quantization and QLoRA adapter only support 'bitsandbytes' load format")

(***************************************************************************)
(* C6.  As stated: the Load and Model builders run before the              *)
(* Speculative, LoRA and Scheduler builders, so a quantization/load-format *)
(* mismatch is reported before any of those three is constructed.          *)
(***************************************************************************)
C6_AsStated ==
    /\ (IsBuilt("speculative_config") \/ IsBuilt("scheduler_config") \/ IsBuilt("lora_config"))
          => (IsBuilt("model_config") /\ IsBuilt("load_config"))
    /\ BitsAndBytesError =>
          (/\ ~IsBuilt("speculative_config")
           /\ ~IsBuilt("scheduler_config")
           /\ ~IsBuilt("lora_config"))

(***************************************************************************)
(* C6, amended.  The Model builder runs before the Speculative, Scheduler  *)
(* and LoRA builders, and the Load builder runs after all three: a         *)
(* quantization/load-format mismatch is reported only after the            *)
(* Speculative, Scheduler and LoRA sub-configurations have been            *)
(* constructed (hence after any multi-step error), and before the          *)
(* PromptAdapter, Decoding and Observability sub-configurations.           *)
(***************************************************************************)
C6_BuilderOrder ==
    /\ (IsBuilt("speculative_config") \/ IsBuilt("scheduler_config") \/ IsBuilt("lora_config"))
          => IsBuilt("model_config")
    /\ (IsBuilt("load_config") \/ BitsAndBytesError) =>
          (/\ IsBuilt("speculative_config")
           /\ IsBuilt("scheduler_config")
           /\ IsBuilt("lora_config"))
    /\ BitsAndBytesError =>
          (/\ ~IsBuilt("prompt_adapter_config")
           /\ ~IsBuilt("decoding_config")
           /\ ~IsBuilt("observability_config"))

C6_Witness ==
    /\ BitsAndBytesError
    /\ args.load_format = "bitsandbytes"
    /\ args.enable_lora
    /\ configs.lora_config # None
    /\ configs.scheduler_config # None

(***************************************************************************)
(* C7.  As stated: the lookahead passed to SchedulerConfig is              *)
(* max(explicit num_lookahead_slots, num_scheduler_steps - 1) without a    *)
(* SpeculativeConfig and the mandated value with one; with explicit 0 and  *)
(* 4 steps a speculative config mandating a lookahead yields it.           *)
(***************************************************************************)
ResolvedLookahead == Get(configs.scheduler_config).num_lookahead_slots

C7_AsStated ==
    /\ configs.scheduler_config # None =>
          ResolvedLookahead =
              IF configs.speculative_config = None
              THEN Max(args.num_lookahead_slots, args.num_scheduler_steps - 1)
              ELSE ctx.spec_lookahead
    /\ (/\ pc \in {"done", "failed"} /\ OverrideUnset
        /\ args.num_lookahead_slots = 0 /\ args.num_scheduler_steps = 4
        /\ args.speculative_model # None) =>
          (configs.scheduler_config # None /\ ResolvedLookahead = ctx.spec_lookahead)

(***************************************************************************)
(* C7, amended.  Without a SpeculativeConfig the lookahead passed to       *)
(* SchedulerConfig is max(explicit num_lookahead_slots, s - 1), where s is *)
(* num_scheduler_steps after the CPU clamp (1 on a CPU platform when more  *)
(* than 1 was requested, the requested value otherwise); with a            *)
(* SpeculativeConfig it is the mandated value, and then num_scheduler_steps *)
(* is at most 1, because more steps together with a SpeculativeConfig fail *)
(* before SchedulerConfig is built.                                        *)
(***************************************************************************)
EffectiveSteps ==
    IF ctx.device_type = "cpu" /\ args.num_scheduler_steps > 1
    THEN 1 ELSE args.num_scheduler_steps

C7_Lookahead ==
    configs.scheduler_config # None =>
        /\ ResolvedLookahead =
              IF configs.speculative_config = None
              THEN Max(args.num_lookahead_slots, EffectiveSteps - 1)
              ELSE ctx.spec_lookahead
        /\ configs.speculative_config # None => args.num_scheduler_steps <= 1
        /\ Get(configs.scheduler_config).num_scheduler_steps = EffectiveSteps

C7_Witness ==
    /\ pc = "done"
    /\ ctx.device_type = "cpu"
    /\ args.num_scheduler_steps = 4
    /\ args.num_lookahead_slots = 0
    /\ ResolvedLookahead = 0

(***************************************************************************)
(* C8.  As stated: with num_scheduler_steps > 1 and a SpeculativeConfig,   *)
(* resolution fails before any sub-configuration has been built.           *)
(***************************************************************************)
MultiStepWithSpeculative ==
    args.num_scheduler_steps > 1 /\ args.speculative_model # None

MultiStepSpecError ==
    FailedSaying("Speculative decoding is not supported with multi-step (--num-scheduler-steps > 1)")

C8_AsStated ==
    MultiStepWithSpeculative =>
        /\ pc # "done"
        /\ MultiStepSpecError => built = <<>>

(***************************************************************************)
(* C8, amended.  With num_scheduler_steps > 1 and a draft model given,     *)
(* resolution never gets past the multi-step check: it returns no          *)
(* configuration and builds no Scheduler, LoRA, Load, PromptAdapter,       *)
(* Decoding or Observability sub-configuration.  The Device and Model      *)
(* sub-configurations are built before any failure, and the multi-step     *)
(* error itself is raised after the Cache, Parallel and Speculative        *)
(* sub-configurations have been built as well.                             *)
(***************************************************************************)
C8_MultiStepSpeculative ==
    MultiStepWithSpeculative =>
        /\ pc \in {"create_model_config", "oracle", "set_defaults", "cache_config",
                   "parallel_config", "speculative_config", "multi_step", "failed"}
        /\ result = None
        /\ \A b \in {"scheduler_config", "lora_config", "load_config",
                     "prompt_adapter_config", "decoding_config",
                     "observability_config"} : ~IsBuilt(b)
        /\ Failed => (IsBuilt("device_config") /\ IsBuilt("model_config"))
        /\ MultiStepSpecError =>
              built = <<"device_config", "model_config", "cache_config",
                        "parallel_config", "speculative_config">>
        /\ (pc = "failed" /\ IsBuilt("speculative_config")) => MultiStepSpecError

C8_Witness ==
    /\ args.num_scheduler_steps = 2
    /\ args.speculative_model # None
    /\ MultiStepSpecError
    /\ configs.speculative_config # None

(***************************************************************************)
(* C9.  As stated: chunked prefill explicitly requested together with a    *)
(* pooling-style task always fails with the validation error 'Chunked      *)
(* prefill is not supported for pooling models', whatever the override.    *)
(***************************************************************************)
ChunkedPrefillForPooling ==
    args.enable_chunked_prefill = Some(TRUE) /\ PoolingTask

PoolingError == FailedSaying("Chunked prefill is not supported for pooling models")

C9_AsStated ==
    (ChunkedPrefillForPooling /\ Failed) => PoolingError

(***************************************************************************)
(* C9, amended.  Chunked prefill explicitly requested together with a      *)
(* pooling-style task always makes resolution fail, at the latest in       *)
(* defaulting: with the validation error 'Chunked prefill is not supported *)
(* for pooling models', raised by Legacy defaulting, when the override is  *)
(* unset or forces Legacy; with the oracle's NotImplementedError when the  *)
(* override forces NextGen (a pooling task is a Tier-A feature, so NextGen *)
(* defaulting, which has no such check, is never reached).                 *)
(***************************************************************************)
C9_ChunkedPrefillPooling ==
    ChunkedPrefillForPooling =>
        /\ pc \in {"create_model_config", "oracle", "set_defaults", "failed"}
        /\ use_v1 = FALSE
        /\ result = None
        /\ Failed => IF ForcedNextGen
                     THEN FailedWith("NotImplementedError")
                     ELSE PoolingError /\ FailedWith("ValueError")

C9_Witness ==
    /\ ChunkedPrefillForPooling
    /\ ForcedLegacy
    /\ PoolingError

(***************************************************************************)
(* C10.  In every returned configuration: under NextGen chunked prefill is *)
(* enabled, also when the caller set it to false; for a pooling-style task *)
(* chunked prefill is disabled; and no configuration is NextGen with a     *)
(* pooling-style task.                                                     *)
(***************************************************************************)
ResolvedChunkedPrefill == Get(configs.scheduler_config).enable_chunked_prefill

C10_ChunkedPrefillResolved ==
    pc = "done" =>
        /\ Get(result).use_v1 => ResolvedChunkedPrefill = Some(TRUE)
        /\ PoolingTask => ResolvedChunkedPrefill = Some(FALSE)
        /\ ~(Get(result).use_v1 /\ PoolingTask)

C10_Witness ==
    /\ pc = "done"
    /\ Get(result).use_v1
    /\ args.enable_chunked_prefill = Some(FALSE)
    /\ ResolvedChunkedPrefill = Some(TRUE)

(***************************************************************************)
(* C11.  Under the Legacy runtime, once defaulting has run, an unspecified *)
(* enable_chunked_prefill is on exactly when max_model_len > 32768, the    *)
(* device is CUDA and the model is not multimodal, does not use MLA, has   *)
(* no sliding window, and neither speculative decoding, LoRA, a prompt     *)
(* adapter nor a pooling task is requested; it is off otherwise.  An       *)
(* explicit value is kept.                                                 *)
(***************************************************************************)
LegacyDefaultsRan ==
    /\ OracleRan /\ ~use_v1 /\ pc # "set_defaults"
    /\ ~FailedWith("NotImplementedError") /\ ~FailedWith("AssertionError")

LongContextDefaultOn ==
    /\ ctx.max_model_len > 32768
    /\ ctx.device_type = "cuda"
    /\ ~ctx.is_multimodal_model
    /\ ~ctx.use_mla
    /\ ctx.sliding_window = None
    /\ args.speculative_model = None
    /\ ~args.enable_lora
    /\ ~args.enable_prompt_adapter
    /\ ~PoolingTask

C11_LegacyChunkedPrefillDefault ==
    LegacyDefaultsRan =>
        self.enable_chunked_prefill =
            IF args.enable_chunked_prefill = None
            THEN Some(LongContextDefaultOn)
            ELSE args.enable_chunked_prefill

C11_Witness ==
    /\ pc = "done" /\ ~use_v1
    /\ args.enable_chunked_prefill = None
    /\ self.enable_chunked_prefill = Some(TRUE)
    /\ Get(configs.scheduler_config).enable_chunked_prefill = Some(TRUE)

(***************************************************************************)
(* C12.  With num_scheduler_steps > 1, chunked prefill enabled and         *)
(* pipeline_parallel_size > 1 the resolution fails: no configuration is    *)
(* returned.  With num_scheduler_steps > 1 and pipeline_parallel_size > 1, *)
(* chunked prefill disabled and no SpeculativeConfig, the multi-step       *)
(* checks raise nothing and SchedulerConfig is built.                      *)
(***************************************************************************)
MultiStepWithPipelineParallel ==
    args.num_scheduler_steps > 1 /\ args.pipeline_parallel_size > 1

\* the multi-step checks of create_engine_config have been evaluated
MultiStepChecked == IsBuilt("speculative_config") /\ pc # "multi_step"

MultiStepChunkedPrefillError ==
    FailedSaying("Multi-Step Chunked-Prefill is not supported for pipeline-parallel-size > 1")

C12_MultiStepChunkedPrefill ==
    /\ (/\ MultiStepWithPipelineParallel
        /\ \/ args.enable_chunked_prefill = Some(TRUE)
           \/ args.enable_chunked_prefill = None /\ LongContextDefaultOn) =>
          /\ pc \notin {"scheduler_config", "lora_config", "load_config",
                        "prompt_adapter_config", "observability_config",
                        "vllm_config", "done"}
          /\ result = None
          /\ (MultiStepChecked /\ configs.speculative_config = None) =>
                MultiStepChunkedPrefillError
    /\ (/\ MultiStepWithPipelineParallel /\ MultiStepChecked
        /\ self.enable_chunked_prefill = Some(FALSE)
        /\ configs.speculative_config = None) =>
          /\ ~MultiStepChunkedPrefillError
          /\ pc = "scheduler_config" \/ IsBuilt("scheduler_config")

C12_Witness ==
    /\ MultiStepWithPipelineParallel
    /\ args.enable_chunked_prefill = None
    /\ self.enable_chunked_prefill = Some(TRUE)
    /\ MultiStepChunkedPrefillError

(***************************************************************************)
(* C13.  As stated: on a CPU platform a request with                       *)
(* num_scheduler_steps > 1 is never rejected by a multi-step check; when   *)
(* it resolves, the CPU warning has been emitted and SchedulerConfig has   *)
(* num_scheduler_steps = 1.                                                *)
(***************************************************************************)
MultiStepOnCpu == ctx.device_type = "cpu" /\ args.num_scheduler_steps > 1

CpuMultiStepWarning ==
    HasNotice("warning",
              "Multi-Step (--num-scheduler-steps > 1) is currently not supported for CPUs and has been disabled.")

C13_AsStated ==
    MultiStepOnCpu =>
        /\ ~MultiStepSpecError
        /\ ~MultiStepChunkedPrefillError
        /\ pc = "done" =>
              /\ CpuMultiStepWarning
              /\ Get(configs.scheduler_config).num_scheduler_steps = 1

(***************************************************************************)
(* C13, amended.  On a CPU platform a request with num_scheduler_steps > 1 *)
(* that reaches the multi-step checks is rejected when a SpeculativeConfig *)
(* is present or when chunked prefill is enabled with                      *)
(* pipeline_parallel_size > 1; otherwise it is corrected: the warning is   *)
(* emitted, no multi-step error is raised and SchedulerConfig gets         *)
(* num_scheduler_steps = 1.  Only a CPU platform is corrected: elsewhere   *)
(* SchedulerConfig gets the requested number of steps and no such warning  *)
(* is emitted.                                                             *)
(***************************************************************************)
C13_CpuMultiStep ==
    /\ (MultiStepOnCpu /\ MultiStepChecked) =>
          IF configs.speculative_config # None
          THEN MultiStepSpecError
          ELSE IF self.enable_chunked_prefill = Some(TRUE)
                  /\ args.pipeline_parallel_size > 1
          THEN MultiStepChunkedPrefillError
          ELSE /\ CpuMultiStepWarning
               /\ ~MultiStepSpecError /\ ~MultiStepChunkedPrefillError
               /\ self.num_scheduler_steps = 1
               /\ configs.scheduler_config # None =>
                     Get(configs.scheduler_config).num_scheduler_steps = 1
    /\ ctx.device_type # "cpu" =>
          /\ ~CpuMultiStepWarning
          /\ configs.scheduler_config # None =>
                Get(configs.scheduler_config).num_scheduler_steps
                    = args.num_scheduler_steps

C13_Witness ==
    /\ pc = "done"
    /\ MultiStepOnCpu
    /\ args.pipeline_parallel_size > 1
    /\ CpuMultiStepWarning
    /\ Get(configs.scheduler_config).num_scheduler_steps = 1

(***************************************************************************)
(* C14.  As stated: when collect_detailed_traces lists a name outside      *)
(* {"model", "worker", "all"}, resolution fails with the validation error  *)
(* that names the first invalid entry.                                     *)
(***************************************************************************)
TraceEntries ==
    IF args.collect_detailed_traces = None THEN <<>>
    ELSE Split(Get(args.collect_detailed_traces))

IsValidTraceEntry(i) == TraceEntries[i] \in {"model", "worker", "all"}

HasInvalidTraceEntry == \E i \in 1..Len(TraceEntries) : ~IsValidTraceEntry(i)

FirstInvalidTraceEntry ==
    TraceEntries[CHOOSE i \in 1..Len(TraceEntries) :
                    /\ ~IsValidTraceEntry(i)
                    /\ \A j \in 1..(i - 1) : IsValidTraceEntry(j)]

InvalidModuleError ==
    /\ FailedWith("ValueError")
    /\ FailedSaying("Invalid module in collect_detailed_traces")
    /\ Get(error).about = FirstInvalidTraceEntry

C14_AsStated ==
    HasInvalidTraceEntry =>
        /\ pc # "done"
        /\ Failed => InvalidModuleError

(***************************************************************************)
(* C14, amended.  With an entry outside {"model", "worker", "all"} no      *)
(* configuration is returned.  When the validation of the entries is       *)
(* reached it raises the error naming the first invalid entry, and builds  *)
(* ObservabilityConfig when every entry is valid.  It is not reached when  *)
(* an earlier check fails: under the forced V1 engine a non-empty          *)
(* collect_detailed_traces is rejected by the oracle with                  *)
(* NotImplementedError.                                                    *)
(***************************************************************************)
\* the validation of the detailed-trace modules has been evaluated
TraceModulesChecked == IsBuilt("decoding_config") /\ pc # "observability_config"

C14_DetailedTraces ==
    /\ HasInvalidTraceEntry => (pc \notin {"vllm_config", "done"} /\ result = None)
    /\ TraceModulesChecked =>
          IF HasInvalidTraceEntry
          THEN InvalidModuleError /\ ~IsBuilt("observability_config")
          ELSE IsBuilt("observability_config")
    /\ (/\ HasInvalidTraceEntry /\ ForcedNextGen /\ Failed
        /\ args.collect_detailed_traces # Some(<<>>)) =>
          FailedWith("NotImplementedError")

C14_Witness ==
    /\ args.collect_detailed_traces = Some(<<"nope", ",", "worker", ",", "bogus">>)
    /\ InvalidModuleError
    /\ Get(error).about = "nope"

(***************************************************************************)
(* C15.  In every configuration that create_engine_config returns,         *)
(* LoRAConfig is present exactly when enable_lora is true,                 *)
(* PromptAdapterConfig exactly when enable_prompt_adapter is true, and     *)
(* SpeculativeConfig exactly when speculative decoding was requested with  *)
(* a speculative model.                                                    *)
(***************************************************************************)
Resolved == Get(result).configs

C15_OptionalConfigs ==
    pc = "done" =>
        /\ (Resolved.lora_config # None) = args.enable_lora
        /\ (Resolved.prompt_adapter_config # None) = args.enable_prompt_adapter
        /\ (Resolved.speculative_config # None) = (args.speculative_model # None)

C15_Witness ==
    /\ pc = "done"
    /\ args.enable_lora
    /\ args.max_cpu_loras = Some(0)
    /\ Resolved.lora_config # None
    /\ Resolved.prompt_adapter_config = None
    /\ Resolved.speculative_config = None

(***************************************************************************)
(* C16.  Calling create_engine_config again on the same EngineArgs object  *)
(* ends as the call before did: it returns the same configuration          *)
(* (runtime version and every sub-configuration, among them the resolved   *)
(* lookahead, chunked-prefill flag, max_num_seqs, max_num_batched_tokens   *)
(* and num_scheduler_steps) or raises the same error.                      *)
(***************************************************************************)
C16_Idempotent ==
    (calls > 1 /\ pc \in {"done", "failed"}) => Outcome = Get(previous)

\* the second call finds the defaults the first call wrote into the object
C16_Witness ==
    /\ calls = 2 /\ pc = "done" /\ use_v1
    /\ args.enable_chunked_prefill = Some(TRUE)
    /\ args.max_num_seqs = Some(1024)
    /\ args.max_num_batched_tokens = Some(8192)
    /\ Get(previous).result = result

(***************************************************************************)
(* C17.  As stated: when create_engine_config has returned or failed,      *)
(* every field of the EngineArgs object holds the value the caller         *)
(* supplied.                                                               *)
(***************************************************************************)
C17_AsStated ==
    pc \in {"done", "failed"} => self = args

(***************************************************************************)
(* C17, amended.  The oracle step writes no field of the EngineArgs        *)
(* object.  The other steps write only these fields: model, quantization   *)
(* and load_format (create_model_config), enable_chunked_prefill,          *)
(* enable_prefix_caching, max_num_seqs and max_num_batched_tokens          *)
(* (defaulting), num_scheduler_steps (CPU correction) and                  *)
(* model_loader_extra_config (QLoRA adapter); every other field keeps the  *)
(* caller's value, also when the resolution fails.                         *)
(***************************************************************************)
WrittenByModelConfig == {"model", "quantization", "load_format"}

WrittenByDefaulting ==
    {"enable_chunked_prefill", "enable_prefix_caching", "max_num_seqs",
     "max_num_batched_tokens"}

WrittenLater == {"num_scheduler_steps", "model_loader_extra_config"}

KeptOutside(fields) ==
    \A f \in (DOMAIN self) \ fields : self[f] = args[f]

\* the oracle has returned or raised and nothing has run since
JustAfterOracle ==
    \/ pc = "set_defaults"
    \/ FailedWith("NotImplementedError")
    \/ FailedWith("AssertionError")

C17_WrittenFields ==
    /\ DOMAIN self = DOMAIN args
    /\ KeptOutside(WrittenByModelConfig \cup WrittenByDefaulting \cup WrittenLater)
    /\ (pc = "oracle" \/ JustAfterOracle) =>
          /\ KeptOutside(WrittenByModelConfig)
          /\ self = create_model_config(args, ctx).self
    /\ ~MultiStepChecked => KeptOutside(WrittenByModelConfig \cup WrittenByDefaulting)

\* a failed resolution that has written a default and the adapter path
C17_Witness ==
    /\ BitsAndBytesError
    /\ args.enable_chunked_prefill = None
    /\ self.enable_chunked_prefill # None
    /\ args.model_loader_extra_config = None
    /\ self.model_loader_extra_config # None

(***************************************************************************)
(* C18.  As stated: once defaulting has run, enable_chunked_prefill,       *)
(* max_num_seqs and max_num_batched_tokens are all set, under both         *)
(* runtimes and for every usage context.                                   *)
(***************************************************************************)
\* _set_default_args_v0 or _set_default_args_v1 has returned
DefaultsApplied == pc = "cache_config" \/ IsBuilt("cache_config")

C18_AsStated ==
    DefaultsApplied =>
        /\ self.enable_chunked_prefill # None
        /\ self.max_num_seqs # None
        /\ self.max_num_batched_tokens # None

(***************************************************************************)
(* C18, amended.  Once defaulting has run, enable_chunked_prefill and      *)
(* max_num_seqs are set under both runtimes and for every usage context:   *)
(* max_num_seqs is the explicit value, else 1024 under NextGen and 256     *)
(* under Legacy.  An unspecified max_num_batched_tokens is filled only     *)
(* under NextGen with usage context LLM_CLASS or OPENAI_API_SERVER, from   *)
(* the table for the device name; otherwise it stays unset.  The values    *)
(* are functions of the runtime, the caller's options, the hardware and    *)
(* the usage context.                                                      *)
(***************************************************************************)
IsHopperDevice ==
    \E i \in 1..Len(ctx.device_name) : ctx.device_name[i] \in {"H100", "H200"}

ExpectedMaxNumBatchedTokens ==
    IF args.max_num_batched_tokens # None THEN args.max_num_batched_tokens
    ELSE IF ~use_v1 THEN None
    ELSE IF ctx.usage_context = Some("LLM_CLASS")
    THEN Some(IF IsHopperDevice THEN 16384 ELSE 8192)
    ELSE IF ctx.usage_context = Some("OPENAI_API_SERVER")
    THEN Some(IF IsHopperDevice THEN 8192 ELSE 2048)
    ELSE None

C18_DefaultsFilled ==
    DefaultsApplied =>
        /\ self.enable_chunked_prefill # None
        /\ self.max_num_seqs =
              IF args.max_num_seqs # None THEN args.max_num_seqs
              ELSE Some(IF use_v1 THEN 1024 ELSE 256)
        /\ self.max_num_batched_tokens = ExpectedMaxNumBatchedTokens

C18_Witness ==
    /\ pc = "done" /\ use_v1
    /\ ctx.usage_context = None
    /\ IsHopperDevice
    /\ self.enable_chunked_prefill = Some(TRUE)
    /\ self.max_num_seqs = Some(1024)
    /\ self.max_num_batched_tokens = None

(***************************************************************************)
(* C20.  The lookahead of every SchedulerConfig that is built, and so of   *)
(* every configuration returned, is at least 0, whatever values            *)
(* num_lookahead_slots and num_scheduler_steps hold and on every platform. *)
(* The value computed from the options is negative only for a negative     *)
(* num_lookahead_slots together with num_scheduler_steps below 1 and no    *)
(* SpeculativeConfig, and SchedulerConfig then rejects it.                 *)
(***************************************************************************)
LookaheadError ==
    FailedSaying("num_lookahead_slots must be greater than or equal to 0")

OracleConflict == ForcedNextGen /\ HardUnsupported

ChunkedPrefillOn ==
    \/ args.enable_chunked_prefill = Some(TRUE)
    \/ args.enable_chunked_prefill = None /\ LongContextDefaultOn

MultiStepChunkedPrefillWithPP == MultiStepWithPipelineParallel /\ ChunkedPrefillOn

NegativeLookahead ==
    /\ args.num_lookahead_slots < 0
    /\ args.num_scheduler_steps < 1
    /\ args.speculative_model = None

\* the earliest violated check
FirstViolated ==
    IF OracleConflict THEN "oracle"
    ELSE IF ChunkedPrefillForPooling THEN "pooling"
    ELSE IF MultiStepWithSpeculative THEN "multi-step speculative"
    ELSE IF MultiStepChunkedPrefillWithPP THEN "multi-step chunked prefill"
    ELSE IF NegativeLookahead THEN "lookahead"
    ELSE IF ~LoadConsistent THEN "load format"
    ELSE IF HasInvalidTraceEntry THEN "trace modules"
    ELSE "none"

\* the check whose error ended the resolution
FailedCheck ==
    IF FailedWith("NotImplementedError") THEN "oracle"
    ELSE IF PoolingError THEN "pooling"
    ELSE IF MultiStepSpecError THEN "multi-step speculative"
    ELSE IF MultiStepChunkedPrefillError THEN "multi-step chunked prefill"
    ELSE IF LookaheadError THEN "lookahead"
    ELSE IF BitsAndBytesError THEN "load format"
    ELSE IF InvalidModuleError THEN "trace modules"
    ELSE "other"

\* the sub-configurations built before each check
BuiltBefore(check) ==
    CASE check = "oracle"  -> <<"device_config", "model_config">>
      [] check = "pooling" -> <<"device_config", "model_config">>
      [] check \in {"multi-step speculative", "multi-step chunked prefill", "lookahead"} ->
            <<"device_config", "model_config", "cache_config", "parallel_config",
              "speculative_config">>
      [] check = "load format" ->
            <<"device_config", "model_config", "cache_config", "parallel_config",
              "speculative_config", "scheduler_config", "lora_config">>
      [] check = "trace modules" ->
            <<"device_config", "model_config", "cache_config", "parallel_config",
              "speculative_config", "scheduler_config", "lora_config",
              "load_config", "prompt_adapter_config", "decoding_config">>
      [] OTHER -> <<>>

C19_FailFastOrder ==
    /\ Failed =>
          /\ FailedCheck = FirstViolated
          /\ built = BuiltBefore(FailedCheck)
          /\ result = None
    /\ pc = "done" => FirstViolated = "none"
    /\ (OracleRan /\ LoadConfigRan /\ FirstViolated = "none") => ~Failed

C19_Witness ==
    /\ ~OracleConflict /\ ~ChunkedPrefillForPooling
    /\ MultiStepWithSpeculative
    /\ MultiStepChunkedPrefillWithPP
    /\ ~LoadConsistent
    /\ HasInvalidTraceEntry
    /\ MultiStepSpecError

(***************************************************************************)
(* C21.  With enable_lora, the LoRAConfig built has max_cpu_loras equal to *)
(* max_loras when max_cpu_loras is unset, 0 or negative, and equal to the  *)
(* explicit max_cpu_loras when that is positive.                           *)
(***************************************************************************)
C21_MaxCpuLoras ==
    (args.enable_lora /\ configs.lora_config # None) =>
        /\ Get(configs.lora_config).max_loras = args.max_loras
        /\ Get(configs.lora_config).max_cpu_loras =
              IF args.max_cpu_loras # None /\ Get(args.max_cpu_loras) > 0
              THEN Get(args.max_cpu_loras)
              ELSE args.max_loras

C21_Witness ==
    /\ pc = "done"
    /\ args.enable_lora
    /\ args.max_loras = 4
    /\ args.max_cpu_loras = Some(-1)
    /\ Get(Resolved.lora_config).max_cpu_loras = 4

(***************************************************************************)
(* C22.  Under NextGen an unset max_num_batched_tokens becomes 16384 on an *)
(* H100/H200 with usage context LLM_CLASS, 8192 on an H100/H200 with       *)
(* OPENAI_API_SERVER, 8192 on another device with LLM_CLASS and 2048 on    *)
(* another device with OPENAI_API_SERVER, and that is the value            *)
(* SchedulerConfig gets.  The default of the H100/H200 class is never      *)
(* below that of the other class, and that of LLM_CLASS never below that   *)
(* of OPENAI_API_SERVER.  An explicit value is kept.                       *)
(***************************************************************************)
TableDefault(hopper, usage) ==
    CASE hopper  /\ usage = "LLM_CLASS"         -> 16384
      [] hopper  /\ usage = "OPENAI_API_SERVER" -> 8192
      [] ~hopper /\ usage = "LLM_CLASS"         -> 8192
      [] ~hopper /\ usage = "OPENAI_API_SERVER" -> 2048

TableUsages == {"LLM_CLASS", "OPENAI_API_SERVER"}

NextGenDefaulted == use_v1 /\ DefaultsApplied

C22_BatchedTokensTable ==
    /\ (NextGenDefaulted /\ args.max_num_batched_tokens = None
        /\ ctx.usage_context # None /\ Get(ctx.usage_context) \in TableUsages) =>
          /\ self.max_num_batched_tokens =
                Some(TableDefault(IsHopperDevice, Get(ctx.usage_context)))
          /\ configs.scheduler_config # None =>
                Get(configs.scheduler_config).max_num_batched_tokens
                    = self.max_num_batched_tokens
    /\ (NextGenDefaulted /\ args.max_num_batched_tokens # None) =>
          self.max_num_batched_tokens = args.max_num_batched_tokens
    /\ \A u \in TableUsages :
          LET t == default_max_num_batched_tokens(ctx.device_name)
          IN  /\ t[u] = TableDefault(IsHopperDevice, u)
              /\ TableDefault(TRUE, u) >= TableDefault(FALSE, u)
              /\ t["LLM_CLASS"] >= t["OPENAI_API_SERVER"]

C22_Witness ==
    /\ pc = "done" /\ use_v1
    /\ ctx.device_name = <<"NVIDIA", "H200">>
    /\ ctx.usage_context = Some("OPENAI_API_SERVER")
    /\ args.max_num_batched_tokens = None
    /\ Get(Resolved.scheduler_config).max_num_batched_tokens = Some(8192)

(***************************************************************************)
(* C23.  An unset max_num_seqs becomes 256 under Legacy and 1024 under     *)
(* NextGen, and an explicit max_num_seqs is kept under both; SchedulerConfig *)
(* gets that value.                                                        *)
(***************************************************************************)
ExpectedMaxNumSeqs ==
    IF args.max_num_seqs # None THEN Get(args.max_num_seqs)
    ELSE IF use_v1 THEN 1024 ELSE 256

C23_MaxNumSeqs ==
    /\ DefaultsApplied => self.max_num_seqs = Some(ExpectedMaxNumSeqs)
    /\ configs.scheduler_config # None =>
          Get(configs.scheduler_config).max_num_seqs = Some(ExpectedMaxNumSeqs)

C23_Witness ==
    /\ pc = "done" /\ ~use_v1
    /\ args.max_num_seqs = Some(8)
    /\ Get(Resolved.scheduler_config).max_num_seqs = Some(8)

(***************************************************************************)
(* C24.  Under Legacy, for a multimodal model, the CacheConfig built never *)
(* has prefix caching enabled: a requested enable_prefix_caching = True is *)
(* set to False with a warning, and an unset or False request stays as it  *)
(* is.                                                                     *)
(***************************************************************************)
PrefixCachingWarning ==
    HasNotice("warning",
              "--enable-prefix-caching is not supported for multimodal models in V0 and has been disabled.")

C24_MultimodalPrefixCaching ==
    (~use_v1 /\ ctx.is_multimodal_model /\ configs.cache_config # None) =>
        /\ Get(configs.cache_config).enable_prefix_caching # Some(TRUE)
        /\ args.enable_prefix_caching = Some(TRUE) =>
              /\ PrefixCachingWarning
              /\ Get(configs.cache_config).enable_prefix_caching = Some(FALSE)
        /\ args.enable_prefix_caching # Some(TRUE) =>
              /\ ~PrefixCachingWarning
              /\ Get(configs.cache_config).enable_prefix_caching
                    = args.enable_prefix_caching

C24_Witness ==
    /\ pc = "done" /\ ~use_v1
    /\ ctx.is_multimodal_model
    /\ args.enable_prefix_caching = Some(TRUE)
    /\ PrefixCachingWarning
    /\ Get(Resolved.cache_config).enable_prefix_caching = Some(FALSE)

(***************************************************************************)
(* C25.  The assertion `use_v1 == envs.VLLM_USE_V1` never fails.  With the *)
(* override set to 1 the oracle either raises or the V1 engine is chosen;  *)
(* with it set to 0 the oracle never raises and the V0 engine is chosen;   *)
(* whatever hard-unsupported and experimental features are requested and   *)
(* whatever VLLM_USE_V1_BY_DEFAULT is.                                     *)
(***************************************************************************)
\* the oracle and the engine choice have run
EngineChosen == OracleRan

C25_AssertionHolds ==
    /\ ~FailedWith("AssertionError")
    /\ (EngineChosen /\ ForcedNextGen) =>
          \/ use_v1
          \/ FailedWith("NotImplementedError") /\ built = <<"device_config", "model_config">>
    /\ (EngineChosen /\ ForcedLegacy) =>
          ~use_v1 /\ ~FailedWith("NotImplementedError")
    /\ (EngineChosen /\ ForcedNextGen /\ ~HardUnsupported) => use_v1

C25_Witness ==
    /\ pc = "set_defaults"
    /\ ForcedNextGen
    /\ ~ctx.use_v1_by_default
    /\ ctx.device_type = "tpu"
    /\ use_v1

(***************************************************************************)
(* C26.  As stated: every configuration returned for the V1 engine has     *)
(* num_scheduler_steps = 1, kv_cache_dtype "auto", no PromptAdapterConfig, *)
(* task "generate", no tracing (no OTLP endpoint, neither model forward    *)
(* nor model execute time collected), no speculative model other than      *)
(* "[ngram]", and a lookahead equal to the explicit num_lookahead_slots or *)
(* to the value the SpeculativeConfig mandates; and an experimental        *)
(* feature is present only under VLLM_USE_V1=1.                            *)
(***************************************************************************)
ResolvedNextGen == pc = "done" /\ Get(result).use_v1

NextGenFlagsAtDefault ==
    /\ Get(Resolved.scheduler_config).num_scheduler_steps = 1
    /\ Get(Resolved.cache_config).cache_dtype = "auto"
    /\ Resolved.prompt_adapter_config = None
    /\ Get(Resolved.model_config).task = "generate"
    /\ ~Get(Resolved.observability_config).collect_model_forward_time
    /\ ~Get(Resolved.observability_config).collect_model_execute_time
    /\ Resolved.speculative_config # None =>
          Get(Resolved.speculative_config).draft_model = "[ngram]"
    /\ Experimental => ForcedNextGen

C26_AsStated ==
    ResolvedNextGen =>
        /\ NextGenFlagsAtDefault
        /\ Get(Resolved.observability_config).otlp_traces_endpoint = None
        /\ Get(Resolved.scheduler_config).num_lookahead_slots
              \in {args.num_lookahead_slots, ctx.spec_lookahead}

(***************************************************************************)
(* C26, amended.  As above, except that the OTLP endpoint may also be the  *)
(* empty string, which the oracle treats as unset, and that without a      *)
(* SpeculativeConfig the lookahead is the explicit num_lookahead_slots     *)
(* only when that is not negative: a negative value resolves to 0.  No     *)
(* hard-unsupported feature is requested in such a configuration.          *)
(***************************************************************************)
C26_NextGenDefaults ==
    ResolvedNextGen =>
        /\ NextGenFlagsAtDefault
        /\ ~HardUnsupported
        /\ Get(Resolved.observability_config).otlp_traces_endpoint \in {None, Some("")}
        /\ Get(Resolved.scheduler_config).num_lookahead_slots =
              IF Resolved.speculative_config # None
              THEN ctx.spec_lookahead
              ELSE Max(args.num_lookahead_slots, 0)

C26_Witness ==
    /\ ResolvedNextGen
    /\ ForcedNextGen
    /\ args.pipeline_parallel_size > 1
    /\ args.num_lookahead_slots = -1
    /\ Get(Resolved.scheduler_config).num_lookahead_slots = 0

(***************************************************************************)
(* C27.  When hard-unsupported features are requested, the oracle reports  *)
(* only the first of them in the order logits-processor-pattern,           *)
(* preemption-mode, disable-async-output-proc, scheduling-policy,          *)
(* scheduler-cls, worker-cls, num-scheduler-steps, scheduler-delay-factor, *)
(* additional-config, guided-decoding-backend, compute capability,         *)
(* kv-cache-dtype, prompt adapter, task, architecture, partial prefills,   *)
(* tracing, speculative decoding, kv-transfer-config: under VLLM_USE_V1=1  *)
(* the error names it and nothing is logged; otherwise exactly one         *)
(* fallback warning is logged, naming it, and the V0 engine is chosen.  No *)
(* notice about an experimental feature is logged, whichever experimental  *)
(* features are requested as well.                                         *)
(***************************************************************************)
Named(holds, name) == [holds |-> holds, name |-> name]

HardUnsupportedInOrder ==
    << Named(args.logits_processor_pattern # None, "--logits-processor-pattern"),
       Named(args.preemption_mode # None, "--preemption-mode"),
       Named(args.disable_async_output_proc, "--disable-async-output-proc"),
       Named(args.scheduling_policy # "fcfs", "--scheduling-policy"),
       Named(args.scheduler_cls # "vllm.core.scheduler.Scheduler", "--scheduler-cls"),
       Named(args.worker_cls # "auto", "--worker-cls"),
       Named(args.num_scheduler_steps # 1, "--num-scheduler-steps"),
       Named(args.scheduler_delay_factor # 0, "--scheduler-delay-factor"),
       Named(args.additional_config # None, "--additional-config"),
       Named(args.guided_decoding_backend # "xgrammar", "--guided-decoding-backend"),
       Named(ctx.device_type = "cuda" /\ ctx.capability_major < 8, "Compute Capacity < 8.0"),
       Named(args.kv_cache_dtype # "auto", "--kv-cache-dtype"),
       Named(args.enable_prompt_adapter, "--enable-prompt-adapter"),
       Named(ctx.task # "generate", "--task " \o ctx.task),
       Named(~ctx.is_v1_compatible, ctx.architectures),
       Named(\/ args.max_num_partial_prefills # Some(1)
             \/ args.max_long_partial_prefills # Some(1)
             \/ args.long_prefill_token_threshold # Some(0),
             "Concurrent Partial Prefill"),
       Named(\/ args.otlp_traces_endpoint \notin {None, Some("")}
             \/ args.collect_detailed_traces \notin {None, Some(<<>>)},
             "--otlp-traces-endpoint"),
       Named(/\ (args.speculative_model # None \/ args.num_speculative_tokens # None)
             /\ args.speculative_model # Some("[ngram]"),
             "Speculative Decoding"),
       Named(args.kv_transfer_config # None, "--kv-transfer-config") >>

HardUnsupportedCount ==
    LET rules == HardUnsupportedInOrder
    IN  Cardinality({i \in 1..Len(rules) : rules[i].holds})

FirstHardUnsupported ==
    LET rules == HardUnsupportedInOrder
        i == CHOOSE k \in 1..Len(rules) :
                /\ rules[k].holds
                /\ \A j \in 1..(k - 1) : ~rules[j].holds
    IN  rules[i].name

FallbackWarnings ==
    {i \in 1..Len(notices) :
        /\ notices[i].level = "warning"
        /\ notices[i].msg \in
              {"is not supported by the V1 Engine. Falling back to V0.",
               "is not supported by the V1 Engine. Falling back to V0. We recommend to remove"}}

ExperimentalNotices ==
    {i \in 1..Len(notices) :
        notices[i].msg \in
            {"Detected VLLM_USE_V1=1. Usage should be considered experimental.",
             "is experimental on VLLM_USE_V1=1. Falling back to V0 Engine."}}

C27_FirstHardUnsupported ==
    /\ HardUnsupported = (HardUnsupportedCount > 0)
    /\ (OracleRan /\ HardUnsupported) =>
          /\ ExperimentalNotices = {}
          /\ ~use_v1
          /\ IF ForcedNextGen
             THEN /\ FailedWith("NotImplementedError")
                  /\ Get(error).about = FirstHardUnsupported
                  /\ notices = <<>>
             ELSE /\ ~FailedWith("NotImplementedError")
                  /\ Cardinality(FallbackWarnings) = 1
                  /\ \A i \in FallbackWarnings : notices[i].feature = FirstHardUnsupported
                  /\ notices[1].feature = FirstHardUnsupported
    /\ (OracleRan /\ ~HardUnsupported) => FallbackWarnings = {}

C27_Witness ==
    /\ pc = "set_defaults"
    /\ OverrideUnset
    /\ HardUnsupportedCount = 2
    /\ args.kv_cache_dtype # "auto"
    /\ Experimental
    /\ notices = <<[level |-> "warning",
                   msg |-> "is not supported by the V1 Engine. Falling back to V0. We recommend to remove",
                   feature |-> "--disable-async-output-proc"]>>

(***************************************************************************)
(* C28.  Without a hard-unsupported feature: under VLLM_USE_V1=1 the       *)
(* oracle logs one experimental-usage warning for every experimental       *)
(* feature requested, in the order MLA, LoRA, Pipeline Parallel, ngram     *)
(* Speculative Decoding, non-CUDA device, and the V1 engine is chosen;     *)
(* otherwise it logs exactly one fallback notice, for the first            *)
(* experimental feature requested in that order, and the V0 engine is      *)
(* chosen.                                                                 *)
(***************************************************************************)
ExperimentalInOrder ==
    << Named(ctx.use_mla, "MLA"),
       Named(args.enable_lora, "LoRA"),
       Named(args.pipeline_parallel_size > 1, "Pipeline Parallel"),
       Named(args.speculative_model = Some("[ngram]"), "ngram Speculative Decoding"),
       Named(ctx.device_type # "cuda", ctx.device_type) >>

Holds(n) == n.holds

ExperimentalRequested == SelectSeq(ExperimentalInOrder, Holds)

ExperimentalWarningAbout(name) ==
    [level |-> "warning",
     msg |-> "Detected VLLM_USE_V1=1. Usage should be considered experimental.",
     feature |-> name]

FallbackInfoAbout(name) ==
    [level |-> "info",
     msg |-> "is experimental on VLLM_USE_V1=1. Falling back to V0 Engine.",
     feature |-> name]

C28_ExperimentalNotices ==
    (OracleRan /\ ~HardUnsupported) =>
        LET n == Len(ExperimentalRequested)
        IN  IF ForcedNextGen
            THEN /\ use_v1
                 /\ ExperimentalNotices = 1..n
                 /\ \A k \in 1..n :
                       notices[k] = ExperimentalWarningAbout(ExperimentalRequested[k].name)
            ELSE IF n > 0
            THEN /\ ~use_v1
                 /\ ExperimentalNotices = {1}
                 /\ notices[1] = FallbackInfoAbout(ExperimentalRequested[1].name)
            ELSE ExperimentalNotices = {}

C28_Witness ==
    /\ pc = "done" /\ use_v1
    /\ ForcedNextGen
    /\ Len(ExperimentalRequested) = 3
    /\ notices = << ExperimentalWarningAbout("MLA"),
                    ExperimentalWarningAbout("Pipeline Parallel"),
                    ExperimentalWarningAbout("tpu") >>

(***************************************************************************)
(* C29.  disable_async_output_proc = True is a hard-unsupported feature:   *)
(* the oracle raises under VLLM_USE_V1=1, and otherwise logs one fallback  *)
(* warning and the V0 engine is chosen.  With every other option at its    *)
(* default the error or the warning names --disable-async-output-proc.     *)
(***************************************************************************)
OnlyAsyncOutputProcDisabled ==
    /\ args.disable_async_output_proc
    /\ [args EXCEPT !.disable_async_output_proc = FALSE] = EngineArgs

C29_DisableAsyncOutputProc ==
    (OracleRan /\ args.disable_async_output_proc) =>
        /\ ~use_v1
        /\ IF ForcedNextGen
           THEN /\ FailedWith("NotImplementedError")
                /\ result = None
                /\ OnlyAsyncOutputProcDisabled =>
                      Get(error).about = "--disable-async-output-proc"
           ELSE /\ ~FailedWith("NotImplementedError")
                /\ Cardinality(FallbackWarnings) = 1
                /\ OnlyAsyncOutputProcDisabled =>
                      /\ notices[1].level = "warning"
                      /\ notices[1].feature = "--disable-async-output-proc"
                      /\ pc \notin {"failed"}

C29_Witness ==
    /\ pc = "done" /\ ~use_v1
    /\ OverrideUnset /\ ctx.use_v1_by_default
    /\ OnlyAsyncOutputProcDisabled
    /\ ~Experimental
    /\ Len(notices) = 1
    /\ notices[1].feature = "--disable-async-output-proc"

(***************************************************************************)
(* C30.  Under the V0 engine with enable_chunked_prefill unspecified,      *)
(* num_scheduler_steps > 1, pipeline_parallel_size > 1 and no              *)
(* SpeculativeConfig, the multi-step checks raise the 'Multi-Step          *)
(* Chunked-Prefill' error exactly when Legacy defaulting has turned        *)
(* chunked prefill on (max_model_len > 32768 on CUDA with none of the      *)
(* excluding features); when defaulting leaves it off they raise nothing   *)
(* and SchedulerConfig is built.                                           *)
(***************************************************************************)
MultiStepWithDefaultedChunkedPrefill ==
    /\ ~use_v1
    /\ args.enable_chunked_prefill = None
    /\ MultiStepWithPipelineParallel
    /\ args.speculative_model = None
    /\ MultiStepChecked

C30_DefaultedChunkedPrefill ==
    MultiStepWithDefaultedChunkedPrefill =>
        IF LongContextDefaultOn
        THEN /\ MultiStepChunkedPrefillError
             /\ FailedWith("ValueError")
             /\ ~IsBuilt("scheduler_config")
             /\ result = None
        ELSE /\ ~MultiStepChunkedPrefillError
             /\ ~MultiStepSpecError
             /\ IsBuilt("scheduler_config") \/ pc = "scheduler_config"

C30_Witness ==
    /\ MultiStepWithDefaultedChunkedPrefill
    /\ OverrideUnset
    /\ LongContextDefaultOn
    /\ self.enable_chunked_prefill = Some(TRUE)
    /\ MultiStepChunkedPrefillError

====
